---- MODULE Spec2Model ----
(***************************************************************************)
(* Search-term classification scripts (Google Ads Scripts, JavaScript).    *)
(*                                                                         *)
(* The main model follows one execution of                                 *)
(* src/scripts/v2/classify-with-3-models.js: main reads its settings from  *)
(* the sheet, classifies each term with bounded retries, writes the        *)
(* Results tab and logs the cost; a failure is appended to the Logs tab.   *)
(* The pure helpers of the sibling scripts (metric calculators, response   *)
(* validation, API key lookup) are operators applied by small              *)
(* specifications of their own.                                            *)
(*                                                                         *)
(* Units: confidence values are held in hundredths (0.92 is 92), times in  *)
(* milliseconds, prices in cents per million tokens.                       *)
(***************************************************************************)
EXTENDS Integers, Sequences, FiniteSets, TLC

VARIABLES
    sheet,          \* named ranges of the settings sheet, and whether it opens
    resultsTab,     \* the "Results" tab
    logsTab,        \* the "Logs" tab
    pc,             \* position of main: loaded, classifying, output, done
    settings,       \* main's settings object
    apiKey,         \* main's apiKey
    idx,            \* index of the term Array.map is at
    attempt,        \* the for-loop counter of classifyTerms
    results,        \* the array Array.map has built so far
    tokenCounts,    \* module-level accumulator
    now,            \* Date.now(), ms since main or the current map callback began
    logger,         \* what logCosts wrote to Logger
    caught,         \* the error main's catch block received ("" = none)
    httpCalls,      \* history: UrlFetchApp.fetch calls of this run
    usageSum,       \* history: usage extracted from 200 responses of this run
    cur,            \* history: calls, sleeps and last error of the term in progress,
                    \* and the startTime locals of the attempt in progress
    last,           \* history: the same for the term whose callback just returned
    tabs0,          \* history: the Results and Logs tabs as the run found them
    run,            \* history: which call of main in this process this is
    vIn,            \* validation harness: the response under validation
    vOut,           \* validation harness: what the validator returned
    mRow,           \* metrics harness: the report row
    mOut,           \* metrics harness: the computed row
    ss,             \* report scripts: the spreadsheet, its tabs by name
    rp,             \* report scripts: position of main, what it logged and queried
    args,           \* function harness: the arguments of the call
    ret             \* function harness: what the call returned

vars == <<sheet, resultsTab, logsTab, pc, settings, apiKey, idx, attempt,
          results, tokenCounts, now, logger, caught, httpCalls, usageSum,
          cur, last, tabs0, run, vIn, vOut, mRow, mOut, ss, rp, args, ret>>

runVars == <<sheet, resultsTab, logsTab, pc, settings, apiKey, idx, attempt,
             results, tokenCounts, now, logger, caught, httpCalls, usageSum,
             cur, last, tabs0, run>>

validateVars == <<vIn, vOut>>

metricVars == <<mRow, mOut>>

reportVars == <<ss, rp>>

callVars == <<args, ret>>

(***************************************************************************)
(* Bounds                                                                  *)
(***************************************************************************)
\* number of cells of the topTerms range
MaxCells == 3

\* number of calls of main in one process
MaxRuns == 2

\* number of rows a report query returns
MaxRows == 2

\* number of rows of the topTerms range classify-terms.js reads
MaxRange == 11

\* number of search terms the intent classifier reads
MaxTerms == 3

(***************************************************************************)
(* JavaScript values                                                       *)
(***************************************************************************)
Undefined == [type |-> "undefined", num |-> 0, str |-> ""]

Num(n) == [type |-> "number", num |-> n, str |-> ""]

Str(s) == [type |-> "string", num |-> 0, str |-> s]

\* ToBoolean of a number, string or undefined
Truthy(v) ==
    \/ v.type = "number" /\ v.num # 0
    \/ v.type = "string" /\ v.str # ""

\* v || w
OrElse(v, w) == IF Truthy(v) THEN v ELSE w

\* String.prototype.toLowerCase on the cell values the sheets below hold
toLowerCase(s) ==
    CASE s = "OpenAI" -> "openai"
      [] s = "TRUE"   -> "true"
      [] OTHER        -> s

\* String.prototype.trim on the cell values the sheets below hold
trim(s) == IF s = " " THEN "" ELSE s

\* Array.prototype.includes
includes(seq, x) == \E i \in 1..Len(seq) : seq[i] = x

\* String.prototype.includes
stringIncludes(s, sub) ==
    \E i \in 1..(Len(s) - Len(sub) + 1) : SubSeq(s, i, i + Len(sub) - 1) = sub

\* numbers that are not whole are exact fractions n/d in lowest terms
RECURSIVE gcd(_, _)
gcd(a, b) == IF b = 0 THEN a ELSE gcd(b, a % b)

\* the fraction n/d in lowest terms
Rat(n, d) == IF d = 0 THEN [n |-> n, d |-> 0] ELSE [n |-> n \div gcd(n, d), d |-> d \div gcd(n, d)]

Zero == Rat(0, 1)

\* a / b
Divide(a, b) == Rat(a.n * b.d, a.d * b.n)

\* a * b
Times(a, b) == Rat(a.n * b.n, a.d * b.d)

\* a + b
Plus(a, b) ==
    LET g == gcd(a.d, b.d)
    IN  Rat(a.n * (b.d \div g) + b.n * (a.d \div g), (a.d \div g) * b.d)

\* the outcome of a call: a returned value or a thrown error
Return(v) == [threw |-> FALSE, error |-> "", value |-> v]

Throw(e) == [threw |-> TRUE, error |-> e, value |-> Undefined]

(***************************************************************************)
(* Constants of classify-with-3-models.js                                  *)
(***************************************************************************)
CATEGORIES == <<"INFORMATIONAL", "NAVIGATIONAL", "COMMERCIAL", "LOCAL", "QUESTION">>

MAX_RETRIES == 3

Providers == {"openai", "anthropic", "gemini"}

MODELS ==
    [p \in Providers |->
        CASE p = "openai" ->
               [standard |-> "gpt-4-1106-preview", cheap |-> "o4-mini-2025-04-16",
                costs |-> [standard |-> [input |-> 200, output |-> 800],
                           cheap    |-> [input |-> 110, output |-> 440]]]
          [] p = "anthropic" ->
               [standard |-> "claude-3-7-sonnet-latest", cheap |-> "claude-3-5-haiku-latest",
                costs |-> [standard |-> [input |-> 300, output |-> 1500],
                           cheap    |-> [input |-> 80, output |-> 400]]]
          [] p = "gemini" ->
               [standard |-> "gemini-2.5-pro-preview-03-25", cheap |-> "gemini-2.0-flash",
                costs |-> [standard |-> [input |-> 125, output |-> 1000],
                           cheap    |-> [input |-> 15, output |-> 60]]]]

(***************************************************************************)
(* The settings sheet                                                      *)
(***************************************************************************)
\* getRangeByName returns null for a name the sheet does not define
NoRange == [type |-> "null", num |-> 0, str |-> ""]

\* Range.getValue(), and the ?. of getAPIKey on a null range
getValue(range) == IF range = NoRange THEN Undefined ELSE range

Tab(rows) == [exists |-> TRUE, rows |-> rows]

NoTab == [exists |-> FALSE, rows |-> <<>>]

ResultsHeader ==
    <<Str("Search Term"), Str("Category"), Str("Confidence"), Str("Duration (sec)"), Str("Error")>>

LogsHeader == <<Str("Timestamp"), Str("Type"), Str("Message")>>

\* a Results tab left by an earlier run (three terms)
OldResults ==
    Tab(<<ResultsHeader,
          <<Str("old1"), Str("LOCAL"), Num(80), Num(1200), Str("")>>,
          <<Str("old2"), Str("ERROR"), Str(""), Str(""), Str("Error: API error (500)")>>,
          <<Str("old3"), Str("QUESTION"), Num(50), Num(900), Str("")>>>>)

\* a Logs tab left by an earlier failed run
OldLogs == Tab(<<LogsHeader, <<Str("t-1"), Str("ERROR"), Str("Error: Invalid model")>>>>)

\* the topTerms range: n cells, the second one blank
TopTermsCells(n) == [i \in 1..n |-> IF i = 2 THEN " " ELSE "term" \o ToString(i)]

KeyCells(k) == {NoRange, Str(""), Str(k)}

\* sheets of the retry runs: a usable configuration, any number of terms
RunSheets ==
    [ok : {TRUE}, model : {"OpenAI", "google"}, cheap : {"no"},
     topTerms : {TopTermsCells(n) : n \in 0..MaxCells},
     mikeKey : {Str("MK")}, regularKey : {Str("RK")}]

\* sheets of the configuration runs: every combination of settings, one term at most
ConfigSheets ==
    [ok : BOOLEAN, model : {"OpenAI", "anthropic", "google", "gemini", "bing"},
     cheap : {"TRUE", "yes", "no"},
     topTerms : {<<>>, <<"">>, <<" ", "term1">>},
     mikeKey : KeyCells("MK"), regularKey : KeyCells("RK")]

(***************************************************************************)
(* readAndValidateSettings, getAPIKey                                      *)
(***************************************************************************)
NonBlank(cell) == trim(cell) # ""

\* readAndValidateSettings without the check of the term list
readAndValidateSettings_noTermCheck(sh) ==
    LET model0 == toLowerCase(sh.model)
        model  == IF model0 = "google" THEN "gemini" ELSE model0
        st     == [model |-> model,
                   cheap |-> (toLowerCase(sh.cheap) = "true"),
                   topTerms |-> SelectSeq(sh.topTerms, NonBlank)]
    IN  IF model \notin DOMAIN MODELS THEN Throw("Error: Invalid model")
        ELSE Return(st)

readAndValidateSettings(sh) ==
    LET model0 == toLowerCase(sh.model)
        model  == IF model0 = "google" THEN "gemini" ELSE model0
        st     == [model |-> model,
                   cheap |-> (toLowerCase(sh.cheap) = "true"),
                   topTerms |-> SelectSeq(sh.topTerms, NonBlank)]
    IN  IF model \notin DOMAIN MODELS THEN Throw("Error: Invalid model")
        ELSE IF Len(st.topTerms) = 0 THEN Throw("Error: No search terms found")
        ELSE Return(st)

\* getAPIKey preferring the shared key
getAPIKey_sharedFirst(sh, model) ==
    LET mikeKey    == getValue(sh.mikeKey)
        regularKey == getValue(sh.regularKey)
        key        == OrElse(regularKey, mikeKey)
    IN  IF ~Truthy(key) THEN Throw("Error: No API key found for " \o model)
        ELSE Return(key)

getAPIKey(sh, model) ==
    LET mikeKey    == getValue(sh.mikeKey)
        regularKey == getValue(sh.regularKey)
        key        == OrElse(mikeKey, regularKey)
    IN  IF ~Truthy(key) THEN Throw("Error: No API key found for " \o model)
        ELSE Return(key)

\* getAPIKeys of starter-app-script.js (both copies are the same)
getAPIKeys(sh, model) ==
    LET known        == model \in {"openai", "anthropic", "google"}
        mikeKeyRange == IF known THEN sh.mikeKey ELSE NoRange
        keyRange     == IF known THEN sh.regularKey ELSE NoRange
    IN  IF mikeKeyRange # NoRange /\ Truthy(getValue(mikeKeyRange))
        THEN Return(getValue(mikeKeyRange))
        ELSE IF keyRange # NoRange /\ Truthy(getValue(keyRange))
        THEN Return(getValue(keyRange))
        ELSE Throw("Error: No API key found for " \o model)

(***************************************************************************)
(* Provider responses                                                      *)
(***************************************************************************)
Usage(i, o) == [present |-> TRUE, input |-> Num(i), output |-> Num(o)]

\* a response body without usage / usageMetadata
NoUsage == [present |-> FALSE, input |-> Undefined, output |-> Undefined]

\* generated text holding a JSON object with these fields
Json(cat, conf) == [kind |-> "json", category |-> cat, confidence |-> conf]

\* generated text without any {...}
NoJson == [kind |-> "nojson", category |-> Undefined, confidence |-> Undefined]

\* generated text whose {...} is not valid JSON
BadJson == [kind |-> "badjson", category |-> Undefined, confidence |-> Undefined]

HttpError(status, ms) == [status |-> status, latency |-> ms, usage |-> NoUsage, text |-> NoJson]

Http200(usage, text, ms) == [status |-> 200, latency |-> ms, usage |-> usage, text |-> text]

\* what an endpoint may answer to one request
Responses ==
    { HttpError(429, 100),
      Http200(Usage(10, 5), NoJson, 300),
      Http200(Usage(20, 15), BadJson, 300),
      Http200(Usage(20, 15), Json(Str("OTHER"), Num(90)), 300),
      Http200(Usage(10, 5), Json(Undefined, Num(70)), 300),
      Http200(Usage(10, 5), Json(Str("COMMERCIAL"), Num(92)), 300),
      Http200(Usage(20, 15), Json(Str("LOCAL"), Num(150)), 0),
      Http200(NoUsage, Json(Str("QUESTION"), Num(0)), 300) }

(***************************************************************************)
(* classifyTerm and its helpers                                            *)
(***************************************************************************)
\* String(v) as a template literal prints it
String(v) ==
    CASE v.type = "string"    -> v.str
      [] v.type = "number"    -> ToString(v.num)
      [] OTHER                -> "undefined"

\* validateResponse accepting any category string, as the looser scripts do
validateResponse_anyCategory(result) ==
    IF ~Truthy(result.category)
    THEN Throw("Error: Invalid category: " \o String(result.category))
    ELSE IF \/ result.confidence.type # "number"
            \/ result.confidence.num < 0
            \/ result.confidence.num > 100
         THEN Return([category |-> result.category, confidence |-> Num(50)])
         ELSE Return([category |-> result.category, confidence |-> result.confidence])

validateResponse(result) ==
    IF ~Truthy(result.category)
       \/ ~(result.category.type = "string" /\ includes(CATEGORIES, result.category.str))
    THEN Throw("Error: Invalid category: " \o String(result.category))
    ELSE IF \/ result.confidence.type # "number"
            \/ result.confidence.num < 0
            \/ result.confidence.num > 100
         THEN Return([category |-> result.category, confidence |-> Num(50)])
         ELSE Return([category |-> result.category, confidence |-> result.confidence])

\* updateTokenCounts assigning instead of adding
updateTokenCounts_assign(tc, usage) ==
    [input  |-> OrElse(usage.inputTokens, Num(0)).num,
     output |-> OrElse(usage.outputTokens, Num(0)).num]

updateTokenCounts(tc, usage) ==
    [input  |-> tc.input + OrElse(usage.inputTokens, Num(0)).num,
     output |-> tc.output + OrElse(usage.outputTokens, Num(0)).num]

\* the provider whose endpoint classifyTerm picks for a model identifier
modelTypeOf(modelConfig) ==
    IF stringIncludes(modelConfig, "gemini") THEN "gemini"
    ELSE IF stringIncludes(modelConfig, "claude") THEN "anthropic"
    ELSE IF stringIncludes(modelConfig, "gpt") \/ stringIncludes(modelConfig, "o4-mini") THEN "openai"
    ELSE "unknown"

\* endpoints[modelType].extractResponse: the usage part
extractUsage(modelType, resp) ==
    IF modelType = "gemini"
    THEN Return([inputTokens |-> OrElse(resp.usage.input, Num(0)),
                 outputTokens |-> OrElse(resp.usage.output, Num(0))])
    ELSE IF ~resp.usage.present
         THEN Throw("TypeError: Cannot read properties of undefined")
         ELSE Return([inputTokens |-> resp.usage.input, outputTokens |-> resp.usage.output])

\* classifyTerm counting the usage only after the text was validated
classifyTerm_countAfterValidation(modelConfig, resp, tc) ==
    LET modelType == modelTypeOf(modelConfig)
        usage     == extractUsage(modelType, resp)
        counted   == updateTokenCounts(tc, usage.value)
        validated == validateResponse(resp.text)
    IN  IF modelType = "unknown"
        THEN [out |-> Throw("Error: Unknown model type: " \o modelConfig),
              tokenCounts |-> tc, fetched |-> FALSE, extracted |-> FALSE]
        ELSE IF resp.status # 200
        THEN [out |-> Throw("Error: API error (" \o ToString(resp.status) \o ")"),
              tokenCounts |-> tc, fetched |-> TRUE, extracted |-> FALSE]
        ELSE IF usage.threw
        THEN [out |-> Throw(usage.error),
              tokenCounts |-> tc, fetched |-> TRUE, extracted |-> FALSE]
        ELSE IF resp.text.kind = "nojson"
        THEN [out |-> Throw("Error: No JSON found in response"),
              tokenCounts |-> tc, fetched |-> TRUE, extracted |-> TRUE]
        ELSE IF resp.text.kind = "badjson"
        THEN [out |-> Throw("SyntaxError: Unexpected token in JSON"),
              tokenCounts |-> tc, fetched |-> TRUE, extracted |-> TRUE]
        ELSE [out |-> validated,
              tokenCounts |-> IF validated.threw THEN tc ELSE counted,
              fetched |-> TRUE, extracted |-> TRUE]

\* one call of classifyTerm that receives resp: its outcome, the token
\* counts it leaves and whether it sent the request
classifyTerm(modelConfig, resp, tc) ==
    LET modelType == modelTypeOf(modelConfig)
        usage     == extractUsage(modelType, resp)
        counted   == updateTokenCounts(tc, usage.value)
    IN  IF modelType = "unknown"
        THEN [out |-> Throw("Error: Unknown model type: " \o modelConfig),
              tokenCounts |-> tc, fetched |-> FALSE, extracted |-> FALSE]
        ELSE IF resp.status # 200
        THEN [out |-> Throw("Error: API error (" \o ToString(resp.status) \o ")"),
              tokenCounts |-> tc, fetched |-> TRUE, extracted |-> FALSE]
        ELSE IF usage.threw
        THEN [out |-> Throw(usage.error),
              tokenCounts |-> tc, fetched |-> TRUE, extracted |-> FALSE]
        ELSE IF resp.text.kind = "nojson"
        THEN [out |-> Throw("Error: No JSON found in response"),
              tokenCounts |-> counted, fetched |-> TRUE, extracted |-> TRUE]
        ELSE IF resp.text.kind = "badjson"
        THEN [out |-> Throw("SyntaxError: Unexpected token in JSON"),
              tokenCounts |-> counted, fetched |-> TRUE, extracted |-> TRUE]
        ELSE [out |-> validateResponse(resp.text),
              tokenCounts |-> counted, fetched |-> TRUE, extracted |-> TRUE]

(***************************************************************************)
(* handleError, outputResults, logCosts                                    *)
(***************************************************************************)
toISOString(t) == "T+" \o ToString(t)

\* handleError writing its row to row 2 instead of appending it
handleError_rowTwo(sh, logs, error, t) ==
    IF ~sh.ok THEN logs
    ELSE Tab(<<LogsHeader, <<Str(toISOString(t)), Str("ERROR"), Str(error)>>>>)

\* the Logs tab after handleError(error); the sheet is reopened first
handleError(sh, logs, error, t) ==
    IF ~sh.ok THEN logs
    ELSE LET rows     == logs.rows
             a1Empty  == rows = <<>> \/ rows[1][1] = Str("")
             withHead == IF ~a1Empty THEN rows
                         ELSE IF rows = <<>> THEN <<LogsHeader>>
                         ELSE [rows EXCEPT ![1] = LogsHeader]
         IN  Tab(Append(withHead, <<Str(toISOString(t)), Str("ERROR"), Str(error)>>))

\* the Logs tab after logErrorToSheet(spreadsheet, error) of
\* starter-app-script.js (its three copies are the same)
logErrorToSheet(logs, error, t) ==
    LET logsSheet == IF ~logs.exists THEN Tab(<<LogsHeader>>) ELSE logs
    IN  Tab(Append(logsSheet.rows, <<Str(toISOString(t)), Str("ERROR"), Str(error)>>))

\* one row of the Results tab
resultRow(r) ==
    <<r.term, r.category, OrElse(r.confidence, Str("")),
      OrElse(r.duration, Str("")), OrElse(r.error, Str(""))>>

\* Sheet.clear()
clear(tab) == Tab(<<>>)

\* getRange(row, 1, n, width).setValues(values): the n rows from row on are
\* overwritten, the other rows of the tab stay
setValues(tab, row, values) ==
    LET lastRow == IF Len(tab.rows) > row + Len(values) - 1
                   THEN Len(tab.rows) ELSE row + Len(values) - 1
    IN  Tab([i \in 1..lastRow |->
                IF i >= row /\ i < row + Len(values) THEN values[i - row + 1]
                ELSE IF i <= Len(tab.rows) THEN tab.rows[i]
                ELSE <<>>])

\* outputResults without the clear() of the tab it found
outputResults_noClear(tab, res) ==
    LET resultsSheet == IF tab.exists THEN tab ELSE Tab(<<>>)
        headed       == setValues(resultsSheet, 1, <<ResultsHeader>>)
    IN  IF Len(res) > 0
        THEN setValues(headed, 2, [i \in 1..Len(res) |-> resultRow(res[i])])
        ELSE headed

\* the Results tab after outputResults(spreadsheet, results), tab being the
\* Results tab before the call
outputResults(tab, res) ==
    LET resultsSheet == IF tab.exists THEN tab ELSE Tab(<<>>)
        cleared      == clear(resultsSheet)
        headed       == setValues(cleared, 1, <<ResultsHeader>>)
    IN  IF Len(res) > 0
        THEN setValues(headed, 2, [i \in 1..Len(res) |-> resultRow(res[i])])
        ELSE headed

\* a price of MODELS, held in cents, in dollars
Dollars(cents) == Rat(cents, 100)

\* logCosts with the prices of the standard model whatever the tier
logCosts_standardPrices(st, tc) ==
    LET costs      == MODELS[st.model].costs.standard
        inputCost  == Times(Divide(Rat(tc.input, 1), Rat(1000000, 1)), Dollars(costs.input))
        outputCost == Times(Divide(Rat(tc.output, 1), Rat(1000000, 1)), Dollars(costs.output))
    IN  [input |-> tc.input, output |-> tc.output,
         inputCost |-> inputCost, outputCost |-> outputCost,
         total |-> Plus(inputCost, outputCost)]

\* what logCosts logs: the totals, the two costs and their sum, in dollars
logCosts(st, tc) ==
    LET costs      == IF st.cheap THEN MODELS[st.model].costs.cheap
                      ELSE MODELS[st.model].costs.standard
        inputCost  == Times(Divide(Rat(tc.input, 1), Rat(1000000, 1)), Dollars(costs.input))
        outputCost == Times(Divide(Rat(tc.output, 1), Rat(1000000, 1)), Dollars(costs.output))
    IN  [input |-> tc.input, output |-> tc.output,
         inputCost |-> inputCost, outputCost |-> outputCost,
         total |-> Plus(inputCost, outputCost)]

(***************************************************************************)
(* One execution of the script                                             *)
(***************************************************************************)
NoSettings == [model |-> "", cheap |-> FALSE, topTerms |-> <<>>]

NoLog == [input |-> 0, output |-> 0, inputCost |-> Zero, outputCost |-> Zero, total |-> Zero]

NoHistory ==
    [term |-> 0, calls |-> 0, failures |-> 0, sleeps |-> <<>>, lastError |-> "",
     lastResponse |-> HttpError(0, 0), elapsed |-> 0, model |-> "",
     fetches |-> 0, startTime |-> 0, pollStart |-> 0]

InitRun(sheets, resultTabs, logTabs) ==
    /\ sheet \in sheets
    /\ resultsTab \in resultTabs
    /\ logsTab \in logTabs
    /\ pc = "loaded"
    /\ settings = NoSettings
    /\ apiKey = Undefined
    /\ idx = 0
    /\ attempt = 0
    /\ results = <<>>
    /\ tokenCounts = [input |-> 0, output |-> 0]
    /\ now = 0
    /\ logger = NoLog
    /\ caught = ""
    /\ httpCalls = 0
    /\ usageSum = [input |-> 0, output |-> 0]
    /\ cur = NoHistory
    /\ last = NoHistory
    /\ tabs0 = [results |-> resultsTab, logs |-> logsTab]
    /\ run = 1

\* a map that stops after its first callback
mapNext_firstOnly(i, n) == IF i < n /\ i < 1 THEN "classifying" ELSE "output"

\* Array.map after i of n callbacks returned: the next callback, or map returns
mapNext(i, n) == IF i < n THEN "classifying" ELSE "output"

\* a success result that drops the classification
successResult_noSpread(term, classified, startTime, endTime) ==
    [term |-> Str(term), category |-> Undefined, confidence |-> Undefined,
     duration |-> Num(endTime - startTime), error |-> Undefined]

\* classifyTerms line 89: the result of a successful attempt
successResult(term, classified, startTime, endTime) ==
    [term |-> Str(term), category |-> classified.category,
     confidence |-> classified.confidence,
     duration |-> Num(endTime - startTime), error |-> Undefined]

\* a terminal result without the error text
terminalResult_noError(term, error) ==
    [term |-> Str(term), category |-> Str("ERROR"), confidence |-> Num(0),
     duration |-> Undefined, error |-> Undefined]

\* classifyTerms line 92: the result of a term that used up its attempts
terminalResult(term, error) ==
    [term |-> Str(term), category |-> Str("ERROR"), confidence |-> Num(0),
     duration |-> Undefined, error |-> Str(error)]

\* the test of line 91 one attempt late
isLastAttempt_late(a) == a = MAX_RETRIES

\* classifyTerms line 91
isLastAttempt(a) == a = MAX_RETRIES - 1

\* the sleep of classifyTerms after the failed attempt number a (from 0)
backoff(a) == (2 ^ a) * 1000

\* main's catch block: handleError, then main returns
Catch(error) ==
    /\ caught' = error
    /\ logsTab' = handleError(sheet, logsTab, error, now)
    /\ pc' = "done"

\* main up to the call of classifyTerms
MainStart ==
    /\ pc = "loaded"
    /\ LET st  == readAndValidateSettings(sheet)
           key == getAPIKey(sheet, st.value.model)
       IN  IF ~sheet.ok
           THEN /\ Catch("Exception: Invalid argument: url")
                /\ UNCHANGED <<settings, apiKey, idx>>
           ELSE IF st.threw
           THEN /\ Catch(st.error)
                /\ UNCHANGED <<settings, apiKey, idx>>
           ELSE IF key.threw
           THEN /\ Catch(key.error)
                /\ settings' = st.value
                /\ UNCHANGED <<apiKey, idx>>
           ELSE /\ settings' = st.value
                /\ apiKey' = key.value
                /\ idx' = 1
                /\ pc' = mapNext(0, Len(st.value.topTerms))
                /\ UNCHANGED <<caught, logsTab>>
    /\ UNCHANGED <<sheet, resultsTab, attempt, results, tokenCounts, now, logger,
                   httpCalls, usageSum, cur, last, tabs0, run, validateVars, metricVars, reportVars, callVars>>

\* the term's result is returned to Array.map, which moves to the next term
TermDone(result, history) ==
    /\ results' = Append(results, result)
    /\ idx' = idx + 1
    /\ attempt' = 0
    /\ last' = history
    /\ cur' = NoHistory
    /\ now' = 0
    /\ pc' = mapNext(idx, Len(settings.topTerms))

\* one iteration of the retry loop of classifyTerms for the term at idx
Attempt ==
    /\ pc = "classifying"
    /\ \E resp \in Responses :
         LET term         == settings.topTerms[idx]
             modelVersion == IF settings.cheap THEN MODELS[settings.model].cheap
                             ELSE MODELS[settings.model].standard
             call         == classifyTerm(modelVersion, resp, tokenCounts)
             fetched      == IF call.fetched THEN 1 ELSE 0
             startTime    == now
             endTime      == now + resp.latency
             called       == [cur EXCEPT !.term = idx, !.calls = @ + 1,
                                         !.lastResponse = resp,
                                         !.elapsed = endTime,
                                         !.model = modelVersion,
                                         !.fetches = @ + fetched]
             failed       == [called EXCEPT !.failures = @ + 1,
                                            !.lastError = call.out.error]
         IN  /\ tokenCounts' = call.tokenCounts
             /\ httpCalls' = httpCalls + fetched
             /\ usageSum' = IF call.extracted
                            THEN [input  |-> usageSum.input + resp.usage.input.num,
                                  output |-> usageSum.output + resp.usage.output.num]
                            ELSE usageSum
             /\ IF ~call.out.threw
                THEN TermDone(successResult(term, call.out.value, startTime, endTime), called)
                ELSE IF isLastAttempt(attempt)
                THEN TermDone(terminalResult(term, call.out.error), failed)
                ELSE /\ attempt' = attempt + 1
                     /\ now' = endTime + backoff(attempt)
                     /\ cur' = [failed EXCEPT !.sleeps = Append(@, backoff(attempt)),
                                              !.elapsed = endTime + backoff(attempt)]
                     /\ last' = NoHistory
                     /\ UNCHANGED <<results, idx, pc>>
    /\ UNCHANGED <<sheet, resultsTab, logsTab, settings, apiKey, logger, caught,
                   tabs0, run, validateVars, metricVars, reportVars, callVars>>

\* main after classifyTerms returned: outputResults, logCosts
Finish ==
    /\ pc = "output"
    /\ resultsTab' = outputResults(resultsTab, results)
    /\ logger' = logCosts(settings, tokenCounts)
    /\ pc' = "done"
    /\ UNCHANGED <<sheet, logsTab, settings, apiKey, idx, attempt, results, tokenCounts,
                   now, caught, httpCalls, usageSum, cur, last, tabs0, run,
                   validateVars, metricVars, reportVars, callVars>>

Idle(v) == [kind |-> "idle", value |-> v]

\* the report scripts and the function harness are not running
OthersIdle ==
    /\ ss = Idle(Undefined)
    /\ rp = Idle(Undefined)
    /\ args = Idle(Undefined)
    /\ ret = Idle(Undefined)

HarnessIdle ==
    /\ vIn = Idle(Undefined)
    /\ vOut = Idle(Undefined)
    /\ mRow = Idle(Undefined)
    /\ mOut = Idle(Undefined)
    /\ OthersIdle

Init ==
    /\ InitRun(RunSheets, {NoTab}, {NoTab})
    /\ HarnessIdle

Next == MainStart \/ Attempt \/ Finish

Spec == Init /\ [][Next]_vars

\* the same execution over every combination of settings
InitConfig ==
    /\ InitRun(ConfigSheets, {NoTab, Tab(<<>>), OldResults}, {NoTab, Tab(<<>>), OldLogs})
    /\ HarnessIdle

SpecConfig == InitConfig /\ [][Next]_vars

(***************************************************************************)
(* Properties of the retry loop (classifyTerms)                            *)
(***************************************************************************)
ErrorCategory == Str("ERROR")

EnumCategories == {Str(CATEGORIES[i]) : i \in 1..Len(CATEGORIES)}

\* C1: a term whose three attempts all throw is classified by exactly three
\* invocations and gets {term, "ERROR", confidence 0, the last error's text}
C1_TerminalErrorResult ==
    (last.term # 0 /\ last.failures = 3) =>
        /\ last.calls = 3
        /\ last.lastError # ""
        /\ results[last.term] =
             [term |-> Str(settings.topTerms[last.term]), category |-> ErrorCategory,
              confidence |-> Num(0), duration |-> Undefined,
              error |-> Str(last.lastError)]

C1_Witness ==
    /\ last.term # 0
    /\ last.failures = 3
    /\ last.lastError = "Error: No JSON found in response"
    /\ results[last.term].category = ErrorCategory

C3_SleepIsTwoToTheN ==
    \A h \in {cur, last} :
        /\ Len(h.sleeps) <= 2
        /\ \A n \in 1..Len(h.sleeps) : h.sleeps[n] = (2 ^ n) * 1000

\* C4: one result per term, in the order of the term list, one term at a
\* time; an "ERROR" result neither ends the run nor skips the terms after it
C4_OneResultPerTermInOrder ==
    /\ pc = "classifying" =>
         (idx \in 1..Len(settings.topTerms) /\ Len(results) = idx - 1)
    /\ (pc = "output" \/ (pc = "done" /\ caught = "")) =>
         Len(results) = Len(settings.topTerms)
    /\ \A i \in 1..Len(results) : results[i].term = Str(settings.topTerms[i])
    /\ (\E i \in 1..Len(results) : results[i].category = ErrorCategory) => caught = ""

C4_Witness ==
    /\ pc = "done"
    /\ Len(results) = 2
    /\ results[1].category = ErrorCategory
    /\ results[2].category = Str("COMMERCIAL")
    /\ resultsTab.exists

\* a 200 response whose JSON object has no category of the enum
InvalidCategoryResponse(resp) ==
    /\ resp.status = 200
    /\ resp.usage.present
    /\ resp.text.kind = "json"
    /\ resp.text.category \notin EnumCategories

\* C6: a response without a category of CATEGORIES is a failed attempt, so
\* every result and every row written has a category of CATEGORIES or "ERROR"
C6_OnlyEnumCategories ==
    /\ \A i \in 1..Len(results) :
         results[i].category \in EnumCategories \cup {ErrorCategory}
    /\ (pc = "done" /\ caught = "") =>
         \A i \in 2..Len(resultsTab.rows) :
            resultsTab.rows[i][2] \in EnumCategories \cup {ErrorCategory}
    /\ \A h \in {cur, last} :
         (h.calls > 0 /\ InvalidCategoryResponse(h.lastResponse)) =>
            /\ h.failures = h.calls
            /\ h.lastError = "Error: Invalid category: " \o String(h.lastResponse.text.category)

C6_Witness ==
    /\ pc = "done"
    /\ last.failures = 3
    /\ last.lastError = "Error: Invalid category: OTHER"
    /\ resultsTab.rows[Len(resultsTab.rows)][2] = ErrorCategory

\* C10: the token totals are the sum of the usage of the 200 responses whose
\* text and usage were extracted, each counted once, and never decrease
C10_TokenTotals ==
    /\ [](tokenCounts = usageSum)
    /\ [][/\ tokenCounts'.input >= tokenCounts.input
          /\ tokenCounts'.output >= tokenCounts.output]_vars

C10_Witness ==
    /\ pc = "done"
    /\ httpCalls = 2
    /\ tokenCounts = [input |-> 30, output |-> 20]
    /\ logger.input = 30

(***************************************************************************)
(* Properties of the configuration (main, readAndValidateSettings,         *)
(* getAPIKey, handleError); checked under SpecConfig                       *)
(***************************************************************************)
\* the provider the sheet selects, after the google -> gemini mapping
SelectedProvider(sh) ==
    LET m == toLowerCase(sh.model) IN IF m = "google" THEN "gemini" ELSE m

ProviderInvalid(sh) == SelectedProvider(sh) \notin {"openai", "anthropic", "gemini"}

TermListEmpty(sh) == \A i \in 1..Len(sh.topTerms) : sh.topTerms[i] \in {"", " "}

HasValue(range) == range # NoRange /\ range # Str("")

NoKey(sh) == ~HasValue(sh.mikeKey) /\ ~HasValue(sh.regularKey)

ConfigInvalid(sh) == ProviderInvalid(sh) \/ TermListEmpty(sh) \/ NoKey(sh)

\* the Logs tab holds what it held (a header at least) and one more row,
\* carrying the error main caught
OneLogRowAppended ==
    LET kept == IF tabs0.logs.rows = <<>> THEN <<LogsHeader>> ELSE tabs0.logs.rows
    IN  /\ logsTab.exists
        /\ Len(logsTab.rows) = Len(kept) + 1
        /\ SubSeq(logsTab.rows, 1, Len(kept)) = kept
        /\ logsTab.rows[Len(kept) + 1][2] = Str("ERROR")
        /\ logsTab.rows[Len(kept) + 1][3] = Str(caught)

\* an invalid configuration ends main at once: no HTTP call, Results tab as
\* it was, one more Logs row
InvalidConfigEndsRun ==
    (pc # "loaded" /\ sheet.ok /\ ConfigInvalid(sheet)) =>
        /\ pc = "done"
        /\ caught # ""
        /\ httpCalls = 0
        /\ results = <<>>
        /\ resultsTab = tabs0.results
        /\ OneLogRowAppended

\* C8 as stated: an invalid configuration ends main at once: no HTTP call,
\* Results tab as it was, one more Logs row with the error message, which
\* for an empty term list contains "No search terms found"
C8_EmptyTermListMessage ==
    /\ InvalidConfigEndsRun
    /\ (pc # "loaded" /\ sheet.ok /\ TermListEmpty(sheet)) =>
          stringIncludes(caught, "No search terms found")

\* C8 as amended: the same, the message containing "No search terms found"
\* when the term list is empty and the provider is one of MODELS
C8_InvalidConfigLogged ==
    /\ InvalidConfigEndsRun
    /\ (pc # "loaded" /\ sheet.ok /\ TermListEmpty(sheet) /\ ~ProviderInvalid(sheet)) =>
          stringIncludes(caught, "No search terms found")

C8_Witness ==
    /\ pc = "done"
    /\ sheet.ok
    /\ TermListEmpty(sheet)
    /\ ~ProviderInvalid(sheet)
    /\ tabs0.results = OldResults
    /\ tabs0.logs = OldLogs
    /\ Len(logsTab.rows) = 3
    /\ logsTab.rows[3][3] = Str("Error: No search terms found")

\* the key the claim selects from the two ranges, for a key lookup k
KeyChoice(sh, k, message) ==
    /\ HasValue(sh.mikeKey) => (~k.threw /\ k.value = sh.mikeKey)
    /\ (~HasValue(sh.mikeKey) /\ HasValue(sh.regularKey)) =>
          (~k.threw /\ k.value = sh.regularKey)
    /\ NoKey(sh) => (k.threw /\ k.error = message)

\* C9: the account-specific key wins when both ranges hold a value, the one
\* that holds a value is used otherwise, and with neither an error is raised
\* and nothing is classified
C9_AccountKeyFirst ==
    /\ (pc # "loaded" /\ sheet.ok /\ ~ProviderInvalid(sheet) /\ ~TermListEmpty(sheet)) =>
         /\ KeyChoice(sheet,
                      IF caught = "" THEN Return(apiKey) ELSE Throw(caught),
                      "Error: No API key found for " \o SelectedProvider(sheet))
         /\ NoKey(sheet) => (pc = "done" /\ httpCalls = 0 /\ results = <<>>)
    /\ \A m \in {"openai", "anthropic", "google"} :
         KeyChoice(sheet, getAPIKeys(sheet, m), "Error: No API key found for " \o m)

C9_Witness ==
    /\ pc = "classifying"
    /\ sheet.mikeKey = Str("MK")
    /\ sheet.regularKey = Str("RK")
    /\ apiKey = Str("MK")

\* rows 2.. of a tab
DataRows(tab) == {tab.rows[i] : i \in 2..Len(tab.rows)}

\* C12: whatever the Results tab held (absent, empty, more rows than this
\* run), after outputResults it holds the header in row 1, then one 5-cell
\* row per result of this run in result order, and no row of an earlier run
C12_ResultsOverwritten ==
    (pc = "done" /\ caught = "") =>
        /\ resultsTab.exists
        /\ Len(resultsTab.rows) = Len(results) + 1
        /\ resultsTab.rows[1] = ResultsHeader
        /\ \A i \in 1..Len(results) :
             /\ Len(resultsTab.rows[i + 1]) = 5
             /\ resultsTab.rows[i + 1][1] = results[i].term
             /\ resultsTab.rows[i + 1][2] = results[i].category
        /\ DataRows(resultsTab) \cap DataRows(tabs0.results) = {}

C12_Witness ==
    /\ pc = "done"
    /\ caught = ""
    /\ tabs0.results = OldResults
    /\ Len(resultsTab.rows) = 2
    /\ resultsTab.rows[2][1] = Str("term1")

(***************************************************************************)
(* Several calls of main in one process: the module-level tokenCounts and  *)
(* the sheet's tabs outlive a call, main's locals do not                   *)
(***************************************************************************)
\* main is called again after it returned
MainAgain ==
    /\ pc = "done"
    /\ run < MaxRuns
    /\ run' = run + 1
    /\ pc' = "loaded"
    /\ settings' = NoSettings
    /\ apiKey' = Undefined
    /\ idx' = 0
    /\ attempt' = 0
    /\ results' = <<>>
    /\ now' = 0
    /\ logger' = NoLog
    /\ caught' = ""
    /\ httpCalls' = 0
    /\ usageSum' = [input |-> 0, output |-> 0]
    /\ cur' = NoHistory
    /\ last' = NoHistory
    /\ tabs0' = [results |-> resultsTab, logs |-> logsTab]
    /\ UNCHANGED <<sheet, resultsTab, logsTab, tokenCounts, validateVars, metricVars, reportVars, callVars>>

\* sheets of the repeated runs: one term, a known or an unknown provider
RerunSheets ==
    [ok : BOOLEAN, model : {"OpenAI", "bing"}, cheap : {"no"},
     topTerms : {<<"term1">>},
     mikeKey : {Str("MK")}, regularKey : {Str("RK")}]

InitRerun ==
    /\ InitRun(RerunSheets, {NoTab}, {NoTab, OldLogs})
    /\ HarnessIdle

NextRerun == MainStart \/ Attempt \/ Finish \/ MainAgain

SpecRerun == InitRerun /\ [][NextRerun]_vars

\* C11: once a run of main has started, the accumulator holds the usage of
\* that run's provider calls only, so the totals and costs the run logs are
\* those of its own calls, whatever earlier runs in the process consumed
C11_RunTotalsOwnCalls ==
    /\ pc # "loaded" => tokenCounts = usageSum
    /\ (pc = "done" /\ caught = "") => logger = logCosts(settings, usageSum)

\* after is before (with its header, if before had no row) plus one row
\* [timestamp, "ERROR", message] at the end
OneRowAfter(before, after, message) ==
    LET kept == IF before.rows = <<>> THEN <<LogsHeader>> ELSE before.rows
    IN  /\ after.exists
        /\ Len(after.rows) = Len(kept) + 1
        /\ SubSeq(after.rows, 1, Len(kept)) = kept
        /\ Len(after.rows[Len(kept) + 1]) = 3
        /\ after.rows[Len(kept) + 1][2] = Str("ERROR")
        /\ after.rows[Len(kept) + 1][3] = Str(message)

\* the header is in row 1 and nowhere else
HeaderOnce(tab) ==
    tab.exists =>
        /\ Len(tab.rows) >= 1
        /\ tab.rows[1] = LogsHeader
        /\ \A i \in 2..Len(tab.rows) : tab.rows[i] # LogsHeader

C14_EveryFailureLogged ==
    (pc = "done" /\ caught # "") => OneRowAfter(tabs0.logs, logsTab, caught)

(***************************************************************************)
(* Response validation: validateResponse of classify-with-3-models.js and  *)
(* validateClassificationResult of starter-app-script.js                   *)
(***************************************************************************)
\* JSON null and true
Null == [type |-> "null", num |-> 0, str |-> ""]

JsTrue == [type |-> "boolean", num |-> 1, str |-> ""]

\* validateClassificationResult with the lower bound of the confidence excluded
validateClassificationResult_zeroRejected(responseText) ==
    IF responseText.kind = "nojson" THEN Throw("Error: No JSON found in response")
    ELSE IF responseText.kind = "badjson" THEN Throw("SyntaxError: Unexpected token in JSON")
    ELSE IF ~Truthy(responseText.category)
            \/ ~(responseText.category.type = "string"
                 /\ includes(CATEGORIES, responseText.category.str))
    THEN Throw("Error: Invalid category: " \o String(responseText.category))
    ELSE IF \/ responseText.confidence.type # "number"
            \/ responseText.confidence.num <= 0
            \/ responseText.confidence.num > 100
         THEN Return([category |-> responseText.category, confidence |-> Num(50)])
         ELSE Return([category |-> responseText.category,
                      confidence |-> responseText.confidence])

validateClassificationResult(responseText) ==
    IF responseText.kind = "nojson" THEN Throw("Error: No JSON found in response")
    ELSE IF responseText.kind = "badjson" THEN Throw("SyntaxError: Unexpected token in JSON")
    ELSE IF ~Truthy(responseText.category)
            \/ ~(responseText.category.type = "string"
                 /\ includes(CATEGORIES, responseText.category.str))
    THEN Throw("Error: Invalid category: " \o String(responseText.category))
    ELSE IF \/ responseText.confidence.type # "number"
            \/ responseText.confidence.num < 0
            \/ responseText.confidence.num > 100
         THEN Return([category |-> responseText.category, confidence |-> Num(50)])
         ELSE Return([category |-> responseText.category,
                      confidence |-> responseText.confidence])

\* confidence values a model may send, numbers in hundredths
ConfidenceInputs ==
    {Undefined, Null, JsTrue, Str("high"), Str("0.9")}
        \cup {Num(n) : n \in {-100, -1, 0, 1, 50, 92, 99, 100, 101, 150}}

CategoryInputs == {Str("LOCAL"), Str("QUESTION"), Str("OTHER"), Str(""), Undefined}

ValidateInputs ==
    {NoJson, BadJson} \cup {Json(c, f) : c \in CategoryInputs, f \in ConfidenceInputs}

\* a sheet for the specifications that never start main
IdleSheet ==
    [ok |-> TRUE, model |-> "OpenAI", cheap |-> "no", topTerms |-> <<>>,
     mikeKey |-> NoRange, regularKey |-> NoRange]

InitValidate ==
    /\ InitRun({IdleSheet}, {NoTab}, {NoTab})
    /\ vIn \in ValidateInputs
    /\ vOut = Idle(Undefined)
    /\ mRow = Idle(Undefined)
    /\ mOut = Idle(Undefined)
    /\ OthersIdle

\* validateResponse(JSON.parse(jsonMatch[0])), classifyTerm line 187
ValidateV2 ==
    /\ vOut.kind = "idle"
    /\ vIn.kind = "json"
    /\ vOut' = [kind |-> "v2", value |-> validateResponse(vIn)]
    /\ UNCHANGED <<vIn, runVars, metricVars, reportVars, callVars>>

\* validateClassificationResult(responseText)
ValidateStarter ==
    /\ vOut.kind = "idle"
    /\ vOut' = [kind |-> "starter", value |-> validateClassificationResult(vIn)]
    /\ UNCHANGED <<vIn, runVars, metricVars, reportVars, callVars>>

NextValidate == ValidateV2 \/ ValidateStarter

SpecValidate == InitValidate /\ [][NextValidate]_vars

InUnitRange(c) == c.type = "number" /\ c.num >= 0 /\ c.num <= 100

\* C5: with a valid category the validators never throw; a confidence that
\* is missing, not a number or outside [0,1] comes back as 0.5, any other
\* unchanged, so the confidence returned is in [0,1]
C5_ConfidenceRepaired ==
    (vOut.kind \in {"v2", "starter"} /\ vIn.kind = "json" /\ vIn.category \in EnumCategories) =>
        /\ ~vOut.value.threw
        /\ vOut.value.value.category = vIn.category
        /\ vOut.value.value.confidence =
              IF InUnitRange(vIn.confidence) THEN vIn.confidence ELSE Num(50)
        /\ InUnitRange(vOut.value.value.confidence)

C5_Witness ==
    /\ vOut.kind = "starter"
    /\ vIn.kind = "json"
    /\ vIn.category = Str("LOCAL")
    /\ vIn.confidence = Str("high")
    /\ vOut.value.value.confidence = Num(50)

(***************************************************************************)
(* Metric calculators: calculateMetrics (search-term.js),                  *)
(* calculateSearchTermsMetrics (starter-app-script.js), processData        *)
(* (part_009).  Numbers are exact fractions n/d; a fraction with d = 0 is  *)
(* the Infinity or NaN a division by zero gives (see Rat above).           *)
(***************************************************************************)
\* a field the row does not hold
Missing == [n |-> 0, d |-> 0]

\* a > 0
Positive(a) == a.d # 0 /\ a.n > 0

\* parseInt(x, 10) || 0
parseIntOr0(x) == IF x.d = 0 THEN Zero ELSE Rat(x.n \div x.d, 1)

\* parseFloat(x) || 0 and Number(x) || 0
numberOr0(x) == IF x.d = 0 THEN Zero ELSE x

\* calculateMetrics with >= for > in the guard of cpc
calculateMetrics_clicksGuardLoose(row) ==
    LET impressions     == parseIntOr0(row.impressions)
        clicks          == parseIntOr0(row.clicks)
        costMicros      == parseIntOr0(row.costMicros)
        conversions     == numberOr0(row.conversions)
        conversionValue == numberOr0(row.conversionValue)
        cost            == Divide(costMicros, Rat(1000000, 1))
    IN  [impressions |-> impressions, clicks |-> clicks, cost |-> cost,
         conversions |-> conversions, conversionValue |-> conversionValue,
         cpc      |-> IF clicks.n >= 0 THEN Divide(cost, clicks) ELSE Zero,
         ctr      |-> IF Positive(impressions) THEN Divide(clicks, impressions) ELSE Zero,
         convRate |-> IF Positive(clicks) THEN Divide(conversions, clicks) ELSE Zero,
         cpa      |-> IF Positive(conversions) THEN Divide(cost, conversions) ELSE Zero,
         roas     |-> IF Positive(cost) THEN Divide(conversionValue, cost) ELSE Zero,
         aov      |-> IF Positive(conversions) THEN Divide(conversionValue, conversions) ELSE Zero]

\* one row of calculateMetrics (search-term.js)
calculateMetrics(row) ==
    LET impressions     == parseIntOr0(row.impressions)
        clicks          == parseIntOr0(row.clicks)
        costMicros      == parseIntOr0(row.costMicros)
        conversions     == numberOr0(row.conversions)
        conversionValue == numberOr0(row.conversionValue)
        cost            == Divide(costMicros, Rat(1000000, 1))
    IN  [impressions |-> impressions, clicks |-> clicks, cost |-> cost,
         conversions |-> conversions, conversionValue |-> conversionValue,
         cpc      |-> IF Positive(clicks) THEN Divide(cost, clicks) ELSE Zero,
         ctr      |-> IF Positive(impressions) THEN Divide(clicks, impressions) ELSE Zero,
         convRate |-> IF Positive(clicks) THEN Divide(conversions, clicks) ELSE Zero,
         cpa      |-> IF Positive(conversions) THEN Divide(cost, conversions) ELSE Zero,
         roas     |-> IF Positive(cost) THEN Divide(conversionValue, cost) ELSE Zero,
         aov      |-> IF Positive(conversions) THEN Divide(conversionValue, conversions) ELSE Zero]

\* one row of calculateSearchTermsMetrics (starter-app-script.js)
calculateSearchTermsMetrics(row) ==
    LET impressions     == parseIntOr0(row.impressions)
        clicks          == parseIntOr0(row.clicks)
        costMicros      == parseIntOr0(row.costMicros)
        conversions     == numberOr0(row.conversions)
        conversionValue == numberOr0(row.conversionValue)
        cost            == Divide(costMicros, Rat(1000000, 1))
    IN  [impressions |-> impressions, clicks |-> clicks, cost |-> cost,
         conversions |-> conversions, conversionValue |-> conversionValue,
         cpc      |-> IF Positive(clicks) THEN Divide(cost, clicks) ELSE Zero,
         ctr      |-> IF Positive(impressions) THEN Divide(clicks, impressions) ELSE Zero,
         convRate |-> IF Positive(clicks) THEN Divide(conversions, clicks) ELSE Zero,
         cpa      |-> IF Positive(conversions) THEN Divide(cost, conversions) ELSE Zero,
         roas     |-> IF Positive(cost) THEN Divide(conversionValue, cost) ELSE Zero,
         aov      |-> IF Positive(conversions) THEN Divide(conversionValue, conversions) ELSE Zero]

\* one row of processData (part_009)
processData(row) ==
    LET impressions     == numberOr0(row.impressions)
        clicks          == numberOr0(row.clicks)
        costMicros      == numberOr0(row.costMicros)
        conversions     == numberOr0(row.conversions)
        conversionValue == numberOr0(row.conversionValue)
        cost            == Divide(costMicros, Rat(1000000, 1))
    IN  [impressions |-> impressions, clicks |-> clicks, cost |-> cost,
         conversions |-> conversions, conversionValue |-> conversionValue,
         cpc      |-> IF Positive(clicks) THEN Divide(cost, clicks) ELSE Zero,
         ctr      |-> IF Positive(impressions) THEN Divide(clicks, impressions) ELSE Zero,
         convRate |-> IF Positive(clicks) THEN Divide(conversions, clicks) ELSE Zero,
         cpa      |-> IF Positive(conversions) THEN Divide(cost, conversions) ELSE Zero,
         roas     |-> IF Positive(cost) THEN Divide(conversionValue, cost) ELSE Zero,
         aov      |-> IF Positive(conversions) THEN Divide(conversionValue, conversions) ELSE Zero]

\* report rows: counts, micros, and conversions with halves
ReportRows ==
    [impressions     : {Missing, Rat(0, 1), Rat(40, 1)},
     clicks          : {Missing, Rat(0, 1), Rat(8, 1)},
     costMicros      : {Rat(0, 1), Rat(1, 1), Rat(2500000, 1)},
     conversions     : {Missing, Rat(0, 1), Rat(1, 2), Rat(3, 1)},
     conversionValue : {Rat(0, 1), Rat(199, 2)}]

InitMetrics ==
    /\ InitRun({IdleSheet}, {NoTab}, {NoTab})
    /\ vIn = Idle(Undefined)
    /\ vOut = Idle(Undefined)
    /\ mRow \in ReportRows
    /\ mOut = Idle(Undefined)
    /\ OthersIdle

CalculateMetrics ==
    /\ mOut.kind = "idle"
    /\ mOut' = [kind |-> "search-term", value |-> calculateMetrics(mRow)]
    /\ UNCHANGED <<mRow, runVars, validateVars, reportVars, callVars>>

CalculateSearchTermsMetrics ==
    /\ mOut.kind = "idle"
    /\ mOut' = [kind |-> "starter", value |-> calculateSearchTermsMetrics(mRow)]
    /\ UNCHANGED <<mRow, runVars, validateVars, reportVars, callVars>>

ProcessData ==
    /\ mOut.kind = "idle"
    /\ mOut' = [kind |-> "part_009", value |-> processData(mRow)]
    /\ UNCHANGED <<mRow, runVars, validateVars, reportVars, callVars>>

NextMetrics == CalculateMetrics \/ CalculateSearchTermsMetrics \/ ProcessData

SpecMetrics == InitMetrics /\ [][NextMetrics]_vars

\* equality of fractions; never true of a division by zero
SameNumber(a, b) == a.d # 0 /\ b.d # 0 /\ Rat(a.n, a.d) = Rat(b.n, b.d)

\* the value of a row's field, a missing one counting as 0
FieldValue(x) == IF x.d = 0 THEN Zero ELSE x

\* C7: cost is cost_micros / 1,000,000; every ratio is its quotient when the
\* denominator is positive and 0 when it is zero, so clicks = 0 gives
\* CPC = CTR = convRate = 0, impressions = 0 gives CTR = 0, cost = 0 gives
\* ROAS = 0, conversions = 0 gives CPA = AOV = 0, and nothing is divided by 0
C7_ZeroGuardedRatios ==
    mOut.kind # "idle" =>
        LET o           == mOut.value
            impressions == FieldValue(mRow.impressions)
            clicks      == FieldValue(mRow.clicks)
            conversions == FieldValue(mRow.conversions)
            value       == FieldValue(mRow.conversionValue)
        IN  /\ SameNumber(o.cost, Rat(mRow.costMicros.n, 1000000))
            /\ clicks.n = 0 =>
                 (SameNumber(o.cpc, Zero) /\ SameNumber(o.ctr, Zero) /\ SameNumber(o.convRate, Zero))
            /\ impressions.n = 0 => SameNumber(o.ctr, Zero)
            /\ mRow.costMicros.n = 0 => SameNumber(o.roas, Zero)
            /\ conversions.n = 0 => (SameNumber(o.cpa, Zero) /\ SameNumber(o.aov, Zero))
            /\ clicks.n > 0 =>
                 /\ SameNumber(o.cpc, Rat(o.cost.n * clicks.d, o.cost.d * clicks.n))
                 /\ SameNumber(o.convRate, Rat(conversions.n * clicks.d, conversions.d * clicks.n))
            /\ impressions.n > 0 =>
                 SameNumber(o.ctr, Rat(clicks.n * impressions.d, clicks.d * impressions.n))
            /\ conversions.n > 0 =>
                 /\ SameNumber(o.cpa, Rat(o.cost.n * conversions.d, o.cost.d * conversions.n))
                 /\ SameNumber(o.aov, Rat(value.n * conversions.d, value.d * conversions.n))
            /\ mRow.costMicros.n > 0 =>
                 SameNumber(o.roas, Rat(value.n * o.cost.d, value.d * o.cost.n))
            /\ \A f \in {"cost", "cpc", "ctr", "convRate", "cpa", "roas", "aov"} : o[f].d # 0

C7_Witness ==
    /\ mOut.kind = "part_009"
    /\ mRow.clicks = Rat(0, 1)
    /\ mRow.impressions = Rat(40, 1)
    /\ mRow.costMicros = Rat(2500000, 1)
    /\ mRow.conversions = Rat(1, 2)
    /\ mOut.value.cpc = Zero
    /\ mOut.value.cost.n * 2 = mOut.value.cost.d * 5

(***************************************************************************)
(* The batch-processing three-provider script, starter-app-script.js lines *)
(* 559-1263: main, readSettings, validateSettings, getAPIKeys,             *)
(* classifySearchTerms with retryApiCall, outputResults, calculateCost.    *)
(* It runs on the variables of the main model.  Runs are followed for the  *)
(* providers "openai" and "google".                                        *)
(***************************************************************************)
\* the model constants the script defines (lines 566-571)
BatchConstants ==
    [OPENAI_MODEL           |-> "gpt-4-1106-preview",
     OPENAI_CHEAP_MODEL     |-> "o4-mini-2025-04-16",
     ANTHROPIC_MODEL        |-> "claude-3-7-sonnet-latest",
     ANTHROPIC_CHEAP_MODEL  |-> "claude-3-5-haiku-latest",
     GEMINI_MODEL           |-> "gemini-2.5-pro",
     GEMINI_CHEAP_MODEL     |-> "gemini-2.0-flash"]

\* evaluating an identifier of the script
BatchConstant(name) ==
    IF name \in DOMAIN BatchConstants THEN Return(BatchConstants[name])
    ELSE Throw("ReferenceError: " \o name \o " is not defined")

\* TOKEN_COSTS (lines 574-581), cents per million tokens
BatchTokenCosts ==
    [m \in {BatchConstants[n] : n \in DOMAIN BatchConstants} |->
        CASE m = "gpt-4-1106-preview"       -> [input |-> 200, output |-> 800]
          [] m = "o4-mini-2025-04-16"       -> [input |-> 110, output |-> 440]
          [] m = "claude-3-7-sonnet-latest" -> [input |-> 300, output |-> 1500]
          [] m = "claude-3-5-haiku-latest"  -> [input |-> 80, output |-> 400]
          [] m = "gemini-2.5-pro"           -> [input |-> 125, output |-> 1000]
          [] m = "gemini-2.0-flash"         -> [input |-> 15, output |-> 60]]

\* readSettings (lines 650-697); the sheet has no batchSize range
readSettings(sh) ==
    [model |-> toLowerCase(sh.model),
     cheap |-> toLowerCase(sh.cheap) \in {"yes", "true"},
     topTerms |-> SelectSeq(sh.topTerms, NonBlank)]

\* validateSettings (lines 702-714)
validateSettings(st) ==
    IF st.model \notin {"openai", "anthropic", "google"}
    THEN Throw("Error: Invalid model. Must be one of: openai, anthropic, google")
    ELSE IF Len(st.topTerms) = 0
    THEN Throw("Error: No search terms found to classify")
    ELSE Return(Undefined)

\* getModelVersion (lines 873-884)
getModelVersion(model, cheap) ==
    CASE model = "openai" ->
           BatchConstant(IF cheap THEN "OPENAI_CHEAP_MODEL" ELSE "OPENAI_MODEL")
      [] model = "anthropic" ->
           BatchConstant(IF cheap THEN "ANTHROPIC_CHEAP_MODEL" ELSE "ANTHROPIC_MODEL")
      [] model = "google" ->
           BatchConstant(IF cheap THEN "GOOGLE_CHEAP_MODEL" ELSE "GOOGLE_MODEL")
      [] OTHER -> Throw("Error: Unknown model type: " \o model)

\* the length of the prompt of classifyWithOpenAI for a term
promptLength(term) == 299 + Len(term)

\* a confidence in hundredths as the model prints it
decimal(n) ==
    CASE n = 0   -> "0"
      [] n = 70  -> "0.7"
      [] n = 90  -> "0.9"
      [] n = 92  -> "0.92"
      [] n = 150 -> "1.5"
      [] OTHER   -> ToString(n) \o "e-2"

\* the generated text of a response
content(text) ==
    CASE text.kind = "nojson"  -> "I cannot classify this term."
      [] text.kind = "badjson" -> "{category: LOCAL"
      [] OTHER -> "{\"category\": \"" \o String(text.category) \o "\", \"confidence\": "
                  \o decimal(text.confidence.num) \o "}"

\* estimateTokenCount (lines 919-923), of a text of this many characters
estimateTokenCount(chars) == (chars + 3) \div 4

\* updateTokenCounts (lines 932-956) for the provider "openai"
BatchUpdateTokenCounts(tc, usage, promptChars, responseChars) ==
    LET inputTokens  == IF usage.present THEN usage.input.num
                        ELSE estimateTokenCount(promptChars)
        outputTokens == IF usage.present THEN usage.output.num
                        ELSE estimateTokenCount(responseChars)
    IN  [input |-> tc.input + inputTokens, output |-> tc.output + outputTokens]

\* classifyWithOpenAI (lines 961-1007) receiving resp; the response text is
\* left out of the message of the error it throws
classifyWithOpenAI(term, resp, tc) ==
    LET counted   == BatchUpdateTokenCounts(tc, resp.usage, promptLength(term),
                                            Len(content(resp.text)))
        validated == validateClassificationResult(resp.text)
    IN  IF resp.status # 200
        THEN [out |-> Throw("TypeError: Cannot read properties of undefined (reading '0')"),
              tokenCounts |-> tc]
        ELSE IF validated.threw
        THEN [out |-> Throw("Error: Failed to parse OpenAI response: " \o validated.error),
              tokenCounts |-> counted]
        ELSE [out |-> validated, tokenCounts |-> counted]

\* Number.prototype.toFixed(4) of an amount of dollars: the number of
\* ten-thousandths it prints
toFixed4(amount) ==
    LET g == gcd(amount.d, 10000)
        n == amount.n * (10000 \div g)
        d == amount.d \div g
    IN  (2 * n + d) \div (2 * d)

\* calculateCost (lines 1215-1263): what it logs, and the Results tab with
\* the summary block two rows below the last row
calculateCost(model, tc, tab) ==
    LET costs      == BatchTokenCosts[model]
        inputCost  == Times(Divide(Rat(tc.input, 1), Rat(1000000, 1)), Dollars(costs.input))
        outputCost == Times(Divide(Rat(tc.output, 1), Rat(1000000, 1)), Dollars(costs.output))
        totalCost  == Plus(inputCost, outputCost)
        dataRows   == Len(tab.rows)
        summary    == <<<<Str("SUMMARY")>>,
                        <<Str("Model Used"), Str(model)>>,
                        <<Str("Input Tokens"), Num(tc.input)>>,
                        <<Str("Output Tokens"), Num(tc.output)>>,
                        <<Str("Total Tokens"), Num(tc.input + tc.output)>>,
                        <<Str("Estimated Cost"), Num(toFixed4(totalCost))>>>>
    IN  IF model \notin DOMAIN BatchTokenCosts
        THEN [logger |-> NoLog, tab |-> tab]
        ELSE [logger |-> [input |-> tc.input, output |-> tc.output,
                          inputCost |-> inputCost, outputCost |-> outputCost,
                          total |-> totalCost],
              tab    |-> IF tab.exists THEN setValues(tab, dataRows + 3, summary) ELSE tab]

\* classifySearchTerms lines 831-835: the result of a term retryApiCall
\* returned for
batchResult(term, classified, startTime, endTime) ==
    [term |-> Str(term), category |-> classified.category,
     confidence |-> classified.confidence,
     duration |-> Num(endTime - startTime), error |-> Undefined]

\* retryApiCall line 772: the wait after retryCount failures
waitTime(retryCount) == (2 ^ retryCount) * 1000

\* main's catch block (lines 634-644)
BatchCatch(error) ==
    /\ caught' = error
    /\ logsTab' = IF sheet.ok THEN logErrorToSheet(logsTab, error, now) ELSE logsTab
    /\ pc' = "done"

\* main (lines 604-622) up to the first term of classifySearchTerms
BatchMainStart ==
    /\ pc = "loaded"
    /\ tokenCounts' = [input |-> 0, output |-> 0]
    /\ LET st         == readSettings(sheet)
           valid      == validateSettings(st)
           key        == getAPIKeys(sheet, st.model)
           modelToUse == getModelVersion(st.model, st.cheap)
       IN  IF ~sheet.ok
           THEN /\ BatchCatch("Exception: Invalid argument: url")
                /\ UNCHANGED <<settings, apiKey, idx>>
           ELSE IF valid.threw
           THEN /\ BatchCatch(valid.error)
                /\ settings' = st
                /\ UNCHANGED <<apiKey, idx>>
           ELSE IF key.threw
           THEN /\ BatchCatch(key.error)
                /\ settings' = st
                /\ UNCHANGED <<apiKey, idx>>
           ELSE IF modelToUse.threw
           THEN /\ BatchCatch(modelToUse.error)
                /\ settings' = st
                /\ apiKey' = key.value
                /\ UNCHANGED idx
           ELSE /\ settings' = st
                /\ apiKey' = key.value
                /\ idx' = 1
                /\ pc' = "classifying"
                /\ UNCHANGED <<caught, logsTab>>
    /\ UNCHANGED <<sheet, resultsTab, attempt, results, now, logger,
                   httpCalls, usageSum, cur, last, tabs0, run, validateVars, metricVars, reportVars, callVars>>

\* one iteration of the loop of retryApiCall for the term at idx; the
\* variable attempt is retryCount, and now counts from the term's startTime
BatchAttempt ==
    /\ pc = "classifying"
    /\ settings.model = "openai"
    /\ \E resp \in Responses :
         LET term       == settings.topTerms[idx]
             modelToUse == getModelVersion(settings.model, settings.cheap).value
             call       == classifyWithOpenAI(term, resp, tokenCounts)
             startTime  == 0
             endTime    == now + resp.latency
             retryCount == attempt + 1
             called     == [cur EXCEPT !.term = idx, !.calls = @ + 1,
                                       !.lastResponse = resp,
                                       !.elapsed = endTime,
                                       !.model = modelToUse,
                                       !.fetches = @ + 1]
             failed     == [called EXCEPT !.failures = @ + 1,
                                          !.lastError = call.out.error]
         IN  /\ tokenCounts' = call.tokenCounts
             /\ httpCalls' = httpCalls + 1
             /\ usageSum' = IF resp.status = 200 /\ resp.usage.present
                            THEN [input  |-> usageSum.input + resp.usage.input.num,
                                  output |-> usageSum.output + resp.usage.output.num]
                            ELSE usageSum
             /\ IF ~call.out.threw
                THEN TermDone(batchResult(term, call.out.value, startTime, endTime), called)
                ELSE IF retryCount < 3
                THEN /\ attempt' = retryCount
                     /\ now' = endTime + waitTime(retryCount)
                     /\ cur' = [failed EXCEPT !.sleeps = Append(@, waitTime(retryCount)),
                                              !.elapsed = endTime + waitTime(retryCount)]
                     /\ last' = NoHistory
                     /\ UNCHANGED <<results, idx, pc>>
                ELSE TermDone(terminalResult(term, call.out.error), failed)
    /\ UNCHANGED <<sheet, resultsTab, logsTab, settings, apiKey, logger, caught,
                   tabs0, run, validateVars, metricVars, reportVars, callVars>>

\* main lines 624-630: outputResults, calculateCost
BatchFinish ==
    /\ pc = "output"
    /\ LET written == outputResults(resultsTab, results)
           cost    == calculateCost(getModelVersion(settings.model, settings.cheap).value,
                                    tokenCounts, written)
       IN  /\ resultsTab' = cost.tab
           /\ logger' = cost.logger
    /\ pc' = "done"
    /\ UNCHANGED <<sheet, logsTab, settings, apiKey, idx, attempt, results, tokenCounts,
                   now, caught, httpCalls, usageSum, cur, last, tabs0, run,
                   validateVars, metricVars, reportVars, callVars>>

\* sheets of the batch runs
BatchSheets ==
    [ok : BOOLEAN, model : {"OpenAI", "google", "gemini"}, cheap : {"yes", "no"},
     topTerms : {<<>>, <<" ", "term2">>, <<"term1", "term2">>},
     mikeKey : {NoRange, Str("MK")}, regularKey : {Str(""), Str("RK")}]

InitBatch ==
    /\ InitRun(BatchSheets, {OldResults}, {NoTab, OldLogs})
    /\ HarnessIdle

NextBatch == BatchMainStart \/ BatchAttempt \/ BatchFinish

SpecBatch == InitBatch /\ [][NextBatch]_vars

\* C15: the duration stored for a term that was classified is the time of
\* the attempt that succeeded: the failed attempts before it and the sleeps
\* between them are not part of it
C15_DurationOfSuccessfulAttempt ==
    (last.term # 0 /\ last.failures < last.calls) =>
        results[last.term].duration = Num(last.lastResponse.latency)

(***************************************************************************)
(* The cost estimate: logCosts of classify-with-3-models.js and            *)
(* calculateCost of the last script of starter-app-script.js (lines        *)
(* 1264-1860)                                                              *)
(***************************************************************************)
\* the model constants of that script (lines 1271-1276)
StarterConstants ==
    [OPENAI_MODEL           |-> "gpt-4o",
     OPENAI_CHEAP_MODEL     |-> "gpt-4o-mini",
     ANTHROPIC_MODEL        |-> "claude-3-5-sonnet-latest",
     ANTHROPIC_CHEAP_MODEL  |-> "claude-3-5-haiku-latest",
     GOOGLE_MODEL           |-> "gemini-1.5-pro",
     GOOGLE_CHEAP_MODEL     |-> "gemini-2.0-flash"]

\* TOKEN_COSTS (lines 1279-1286), cents per million tokens
StarterTokenCosts ==
    [m \in {StarterConstants[n] : n \in DOMAIN StarterConstants} |->
        CASE m = "gpt-4o"                   -> [input |-> 250, output |-> 1000]
          [] m = "gpt-4o-mini"              -> [input |-> 15, output |-> 60]
          [] m = "claude-3-5-sonnet-latest" -> [input |-> 300, output |-> 1500]
          [] m = "claude-3-5-haiku-latest"  -> [input |-> 80, output |-> 400]
          [] m = "gemini-1.5-pro"           -> [input |-> 0, output |-> 0]
          [] m = "gemini-2.0-flash"         -> [input |-> 0, output |-> 0]]

\* getModelVersion (lines 1509-1520)
StarterGetModelVersion(model, cheap) ==
    CASE model = "openai" ->
           Return(IF cheap THEN StarterConstants.OPENAI_CHEAP_MODEL
                  ELSE StarterConstants.OPENAI_MODEL)
      [] model = "anthropic" ->
           Return(IF cheap THEN StarterConstants.ANTHROPIC_CHEAP_MODEL
                  ELSE StarterConstants.ANTHROPIC_MODEL)
      [] model = "google" ->
           Return(IF cheap THEN StarterConstants.GOOGLE_CHEAP_MODEL
                  ELSE StarterConstants.GOOGLE_MODEL)
      [] OTHER -> Throw("Error: Unknown model type: " \o model)

\* calculateCost (lines 1845-1860): the total it returns, in dollars
StarterCalculateCost(model, tc) ==
    IF model \notin DOMAIN StarterTokenCosts THEN Zero
    ELSE LET costs      == StarterTokenCosts[model]
             inputCost  == Times(Divide(Rat(tc.input, 1), Rat(1000000, 1)),
                                 Dollars(costs.input))
             outputCost == Times(Divide(Rat(tc.output, 1), Rat(1000000, 1)),
                                 Dollars(costs.output))
         IN  Plus(inputCost, outputCost)

\* the price list of classify-with-3-models.js by model identifier
ModelPrices ==
    {[id |-> MODELS[p].standard, price |-> MODELS[p].costs.standard] : p \in Providers}
        \cup {[id |-> MODELS[p].cheap, price |-> MODELS[p].costs.cheap] : p \in Providers}

PriceOfModel(id) == (CHOOSE e \in ModelPrices : e.id = id).price

\* (in / 1,000,000) * price_in + (out / 1,000,000) * price_out in dollars,
\* for prices in cents per million tokens
Estimate(tc, price) ==
    Rat(tc.input * price.input + tc.output * price.output, 100000000)

\* C16: the estimate logged at the end of a run is
\* (input / 1,000,000) * price_in + (output / 1,000,000) * price_out at the
\* prices of the model the run's requests named, and 0 with no tokens; so is
\* the value calculateCost returns for the totals and any provider and tier
C16_CostEstimate ==
    /\ (pc = "done" /\ caught = "") =>
          /\ last.calls > 0
          /\ logger.input = tokenCounts.input
          /\ logger.output = tokenCounts.output
          /\ logger.total = Estimate(tokenCounts, PriceOfModel(last.model))
          /\ tokenCounts = [input |-> 0, output |-> 0] => logger.total = Zero
    /\ \A p \in {"openai", "anthropic", "google"}, cheap \in BOOLEAN :
          LET modelToUse == StarterGetModelVersion(p, cheap).value
          IN  /\ StarterCalculateCost(modelToUse, tokenCounts) =
                    Estimate(tokenCounts, StarterTokenCosts[modelToUse])
              /\ StarterCalculateCost(modelToUse, [input |-> 0, output |-> 0]) = Zero

C16_Witness ==
    /\ pc = "done"
    /\ caught = ""
    /\ settings.cheap
    /\ settings.model = "anthropic"
    /\ tokenCounts = [input |-> 30, output |-> 20]
    /\ logger.total = Rat(30 * 80 + 20 * 400, 100000000)
    /\ StarterCalculateCost("gpt-4o", tokenCounts) = Rat(30 * 250 + 20 * 1000, 100000000)

\* the tier the sheet's cheap cell asks for
TierAsked(sh) ==
    CASE sh.cheap = "yes" -> "cheap"
      [] sh.cheap = "no"  -> "standard"
      [] OTHER            -> "unspecified"

\* C17: with cheap = "yes" every request names the lower-cost model of the
\* selected provider and the estimate uses its prices; with cheap = "no" the
\* standard model and its prices
C17_CheapSettingSelectsModel ==
    LET p    == SelectedProvider(sheet)
        tier == TierAsked(sheet)
    IN  (tier # "unspecified" /\ p \in Providers) =>
           /\ \A h \in {cur, last} : h.calls > 0 => h.model = MODELS[p][tier]
           /\ (pc = "done" /\ caught = "") =>
                 logger.total = Estimate(tokenCounts, MODELS[p].costs[tier])

\* a 200 response with valid generated text and no usage object
ValidTextNoUsage(resp) ==
    /\ resp.status = 200
    /\ ~resp.usage.present
    /\ resp.text.kind = "json"
    /\ resp.text.category \in EnumCategories

\* C18: an attempt that receives a 200 response with valid text and no usage
\* information succeeds and adds 0 to the totals, whatever the provider
C18_MissingUsageStillSucceeds ==
    /\ \A h \in {cur, last} :
          (h.calls > 0 /\ ValidTextNoUsage(h.lastResponse)) => h.failures < h.calls
    /\ tokenCounts = usageSum

(***************************************************************************)
(* src/unnamed/part_007: the earlier copy of classify-with-3-models.js.    *)
(* Its MODELS, readAndValidateSettings, classifyTerm and updateTokenCounts *)
(* differ; getAPIKey, classifyTerms, validateResponse, outputResults,      *)
(* logCosts and handleError are the same text.                             *)
(***************************************************************************)
Part007Providers == <<"openai", "anthropic", "google">>

\* MODELS (lines 8-24), prices in cents per million tokens
Part007Models ==
    [p \in {"openai", "anthropic", "google"} |->
        CASE p = "openai" ->
               [standard |-> "gpt-4o", cheap |-> "gpt-4o-mini",
                costs |-> [standard |-> [input |-> 250, output |-> 1000],
                           cheap    |-> [input |-> 15, output |-> 60]]]
          [] p = "anthropic" ->
               [standard |-> "claude-3-5-sonnet-latest", cheap |-> "claude-3-5-haiku-latest",
                costs |-> [standard |-> [input |-> 300, output |-> 1500],
                           cheap    |-> [input |-> 80, output |-> 400]]]
          [] p = "google" ->
               [standard |-> "gemini-1.5-pro", cheap |-> "gemini-2.0-flash",
                costs |-> [standard |-> [input |-> 0, output |-> 0],
                           cheap    |-> [input |-> 0, output |-> 0]]]]

\* readAndValidateSettings (lines 43-54)
Part007ReadAndValidateSettings(sh) ==
    LET st == [model |-> toLowerCase(sh.model),
               cheap |-> (toLowerCase(sh.cheap) = "true"),
               topTerms |-> SelectSeq(sh.topTerms, NonBlank)]
    IN  IF st.model \notin DOMAIN Part007Models THEN Throw("Error: Invalid model")
        ELSE IF Len(st.topTerms) = 0 THEN Throw("Error: No search terms found")
        ELSE Return(st)

\* Array.prototype.find over the keys of endpoints; "unknown" is undefined
RECURSIVE find(_, _, _)
find(keys, i, text) ==
    IF i > Len(keys) THEN "unknown"
    ELSE IF stringIncludes(text, keys[i]) THEN keys[i]
    ELSE find(keys, i + 1, text)

\* classifyTerm line 130: the key of endpoints the model identifier selects
Part007ModelTypeOf(modelConfig) == find(Part007Providers, 1, toLowerCase(modelConfig))

\* updateTokenCounts (lines 186-190); usage is data.usage or data.usageMetadata
Part007UpdateTokenCounts(tc, usage) ==
    IF ~usage.present THEN tc
    ELSE [input  |-> tc.input + OrElse(usage.input, Num(0)).num,
          output |-> tc.output + OrElse(usage.output, Num(0)).num]

\* one call of classifyTerm (lines 86-157) that would receive resp
Part007ClassifyTerm(modelConfig, resp, tc) ==
    LET modelType == Part007ModelTypeOf(modelConfig)
        counted   == Part007UpdateTokenCounts(tc, resp.usage)
    IN  IF modelType = "unknown"
        THEN [out |-> Throw("Error: Unknown model type: " \o modelConfig),
              tokenCounts |-> tc, fetched |-> FALSE, extracted |-> FALSE]
        ELSE IF resp.status # 200
        THEN [out |-> Throw("Error: API error (" \o ToString(resp.status) \o ")"),
              tokenCounts |-> tc, fetched |-> TRUE, extracted |-> FALSE]
        ELSE IF resp.text.kind = "nojson"
        THEN [out |-> Throw("Error: No JSON found in response"),
              tokenCounts |-> counted, fetched |-> TRUE, extracted |-> TRUE]
        ELSE IF resp.text.kind = "badjson"
        THEN [out |-> Throw("SyntaxError: Unexpected token in JSON"),
              tokenCounts |-> counted, fetched |-> TRUE, extracted |-> TRUE]
        ELSE [out |-> validateResponse(resp.text),
              tokenCounts |-> counted, fetched |-> TRUE, extracted |-> TRUE]

\* logCosts (lines 209-220)
Part007LogCosts(st, tc) ==
    LET costs      == IF st.cheap THEN Part007Models[st.model].costs.cheap
                      ELSE Part007Models[st.model].costs.standard
        inputCost  == Times(Divide(Rat(tc.input, 1), Rat(1000000, 1)), Dollars(costs.input))
        outputCost == Times(Divide(Rat(tc.output, 1), Rat(1000000, 1)), Dollars(costs.output))
    IN  [input |-> tc.input, output |-> tc.output,
         inputCost |-> inputCost, outputCost |-> outputCost,
         total |-> Plus(inputCost, outputCost)]

\* main (lines 29-41) up to the call of classifyTerms
Part007MainStart ==
    /\ pc = "loaded"
    /\ LET st  == Part007ReadAndValidateSettings(sheet)
           key == getAPIKey(sheet, st.value.model)
       IN  IF ~sheet.ok
           THEN /\ Catch("Exception: Invalid argument: url")
                /\ UNCHANGED <<settings, apiKey, idx>>
           ELSE IF st.threw
           THEN /\ Catch(st.error)
                /\ UNCHANGED <<settings, apiKey, idx>>
           ELSE IF key.threw
           THEN /\ Catch(key.error)
                /\ settings' = st.value
                /\ UNCHANGED <<apiKey, idx>>
           ELSE /\ settings' = st.value
                /\ apiKey' = key.value
                /\ idx' = 1
                /\ pc' = mapNext(0, Len(st.value.topTerms))
                /\ UNCHANGED <<caught, logsTab>>
    /\ UNCHANGED <<sheet, resultsTab, attempt, results, tokenCounts, now, logger,
                   httpCalls, usageSum, cur, last, tabs0, run, validateVars, metricVars, reportVars, callVars>>

\* one iteration of the retry loop of classifyTerms (lines 71-82)
Part007Attempt ==
    /\ pc = "classifying"
    /\ LET term         == settings.topTerms[idx]
           modelVersion == IF settings.cheap THEN Part007Models[settings.model].cheap
                           ELSE Part007Models[settings.model].standard
           sends        == Part007ModelTypeOf(modelVersion) # "unknown"
       IN  \E resp \in IF sends THEN Responses ELSE {HttpError(0, 0)} :
             LET call      == Part007ClassifyTerm(modelVersion, resp, tokenCounts)
                 startTime == now
                 endTime   == now + resp.latency
                 called    == [cur EXCEPT !.term = idx, !.calls = @ + 1,
                                          !.lastResponse = resp,
                                          !.elapsed = endTime,
                                          !.model = modelVersion,
                                          !.fetches = @ + (IF call.fetched THEN 1 ELSE 0)]
                 failed    == [called EXCEPT !.failures = @ + 1,
                                             !.lastError = call.out.error]
             IN  /\ tokenCounts' = call.tokenCounts
                 /\ httpCalls' = httpCalls + (IF call.fetched THEN 1 ELSE 0)
                 /\ usageSum' = IF call.extracted /\ resp.usage.present
                                THEN [input  |-> usageSum.input + resp.usage.input.num,
                                      output |-> usageSum.output + resp.usage.output.num]
                                ELSE usageSum
                 /\ IF ~call.out.threw
                    THEN TermDone(successResult(term, call.out.value, startTime, endTime),
                                  called)
                    ELSE IF isLastAttempt(attempt)
                    THEN TermDone(terminalResult(term, call.out.error), failed)
                    ELSE /\ attempt' = attempt + 1
                         /\ now' = endTime + backoff(attempt)
                         /\ cur' = [failed EXCEPT !.sleeps = Append(@, backoff(attempt)),
                                                  !.elapsed = endTime + backoff(attempt)]
                         /\ last' = NoHistory
                         /\ UNCHANGED <<results, idx, pc>>
    /\ UNCHANGED <<sheet, resultsTab, logsTab, settings, apiKey, logger, caught,
                   tabs0, run, validateVars, metricVars, reportVars, callVars>>

\* main after classifyTerms returned: outputResults, logCosts
Part007Finish ==
    /\ pc = "output"
    /\ resultsTab' = outputResults(resultsTab, results)
    /\ logger' = Part007LogCosts(settings, tokenCounts)
    /\ pc' = "done"
    /\ UNCHANGED <<sheet, logsTab, settings, apiKey, idx, attempt, results, tokenCounts,
                   now, caught, httpCalls, usageSum, cur, last, tabs0, run,
                   validateVars, metricVars, reportVars, callVars>>

Part007Sheets ==
    [ok : BOOLEAN, model : {"OpenAI", "anthropic", "google", "gemini"},
     cheap : {"TRUE", "no"},
     topTerms : {TopTermsCells(n) : n \in 0..MaxCells},
     mikeKey : {NoRange, Str("MK")}, regularKey : {Str("RK")}]

InitPart007 ==
    /\ InitRun(Part007Sheets, {NoTab, OldResults}, {NoTab})
    /\ HarnessIdle

NextPart007 == Part007MainStart \/ Part007Attempt \/ Part007Finish

SpecPart007 == InitPart007 /\ [][NextPart007]_vars

\* C19: for every provider and tier the settings accept, classifyTerm picks
\* the endpoint of the configured provider for the model identifier MODELS
\* gives: no attempt ends in "Unknown model type" and none uses the endpoint
\* of another provider, in classify-with-3-models.js and in part_007
C19_DispatchToConfiguredProvider ==
    /\ \A p \in Providers, tier \in {"standard", "cheap"} :
          modelTypeOf(MODELS[p][tier]) = p
    /\ \A p \in DOMAIN Part007Models, tier \in {"standard", "cheap"} :
          Part007ModelTypeOf(Part007Models[p][tier]) = p
    /\ \A h \in {cur, last} :
          h.calls > 0 =>
             /\ ~stringIncludes(h.lastError, "Unknown model type")
             /\ Part007ModelTypeOf(h.model) = settings.model

\* the part of C19 that is about classify-with-3-models.js
DispatchOfV2 ==
    /\ \A p \in Providers, tier \in {"standard", "cheap"} :
          modelTypeOf(MODELS[p][tier]) = p
    /\ \A h \in {cur, last} :
          h.calls > 0 =>
             /\ ~stringIncludes(h.lastError, "Unknown model type")
             /\ modelTypeOf(h.model) = settings.model

\* the settings of the sheet pass validateSettings and getAPIKeys of the
\* batch script
ValidBatchConfig ==
    /\ sheet.ok
    /\ ~validateSettings(readSettings(sheet)).threw
    /\ ~getAPIKeys(sheet, readSettings(sheet).model).threw

\* C20: in the batch script, for every provider validateSettings accepts and
\* either tier, getModelVersion returns an identifier the script defines and
\* prices in TOKEN_COSTS, so a run with a valid configuration classifies its
\* terms and writes the Results tab instead of ending in a run-level error
C20_ValidConfigReachesOutput ==
    /\ \A p \in {"openai", "anthropic", "google"}, cheap \in BOOLEAN :
          /\ ~getModelVersion(p, cheap).threw
          /\ getModelVersion(p, cheap).value \in DOMAIN BatchTokenCosts
    /\ (pc = "done" /\ ValidBatchConfig) =>
          /\ caught = ""
          /\ Len(results) = Len(readSettings(sheet).topTerms)
          /\ resultsTab # tabs0.results

(***************************************************************************)
(* src/scripts/starter-app-script.js, lines 1264-1860: the three-provider  *)
(* script whose classifySearchTerms retries in an inline while loop        *)
(***************************************************************************)
\* readSettings (lines 1355-1387)
StarterReadSettings(sh) ==
    [model |-> toLowerCase(sh.model),
     cheap |-> toLowerCase(sh.cheap) \in {"yes", "true"},
     topTerms |-> SelectSeq(sh.topTerms, NonBlank)]

\* validateSettings (lines 1392-1404)
StarterValidateSettings(st) ==
    IF st.model \notin {"openai", "anthropic", "google"}
    THEN Throw("Error: Invalid model. Must be one of: openai, anthropic, google")
    ELSE IF Len(st.topTerms) = 0
    THEN Throw("Error: No search terms found to classify")
    ELSE Return(Undefined)

\* the "Track token usage" blocks of the three adapters
StarterTrack(tc, usage) ==
    IF usage.present
    THEN [input |-> tc.input + usage.input.num, output |-> tc.output + usage.output.num]
    ELSE tc

\* the try block that ends each adapter: the JSON of the generated text,
\* validated; the response text is left out of the message it throws
StarterParse(name, text) ==
    LET inner == IF text.kind = "nojson" THEN Throw("Error: No JSON found in response")
                 ELSE IF text.kind = "badjson"
                 THEN Throw("SyntaxError: Unexpected token in JSON")
                 ELSE validateResponse(text)
    IN  IF inner.threw
        THEN Throw("Error: Failed to parse " \o name \o " response: " \o inner.error)
        ELSE inner

\* classifyWithOpenAI (lines 1525-1592) receiving resp
StarterClassifyWithOpenAI(resp, tc) ==
    IF resp.status # 200
    THEN [out |-> Throw("TypeError: Cannot read properties of undefined (reading '0')"),
          tokenCounts |-> tc]
    ELSE [out |-> StarterParse("OpenAI", resp.text),
          tokenCounts |-> StarterTrack(tc, resp.usage)]

\* classifyWithAnthropic from line 1645 on, resp being the response its
\* polling loop ended with
StarterClassifyWithAnthropic(resp, tc) ==
    IF resp.status # 200
    THEN [out |-> Throw("Error: Anthropic error (" \o ToString(resp.status) \o ")"),
          tokenCounts |-> tc]
    ELSE [out |-> StarterParse("Anthropic", resp.text),
          tokenCounts |-> StarterTrack(tc, resp.usage)]

\* classifyWithGoogle (lines 1699-1772) receiving resp; its fetch does not
\* mute HTTP exceptions
StarterClassifyWithGoogle(resp, tc) ==
    IF resp.status # 200
    THEN [out |-> Throw("Exception: Request failed returned code " \o ToString(resp.status)),
          tokenCounts |-> tc]
    ELSE [out |-> StarterParse("Google", resp.text),
          tokenCounts |-> StarterTrack(tc, resp.usage)]

\* the switch of classifySearchTerms (lines 1461-1471)
StarterClassify(model, resp, tc) ==
    CASE model = "openai"    -> StarterClassifyWithOpenAI(resp, tc)
      [] model = "anthropic" -> StarterClassifyWithAnthropic(resp, tc)
      [] model = "google"    -> StarterClassifyWithGoogle(resp, tc)

\* the while condition of classifyWithAnthropic (line 1637)
keepPolling(responseCode, t, startTime) == responseCode # 200 /\ t - startTime < 30000

\* what calculateCost (lines 1845-1860) logs
StarterCostLog(model, tc) ==
    IF model \notin DOMAIN StarterTokenCosts THEN NoLog
    ELSE LET costs == StarterTokenCosts[model]
         IN  [input |-> tc.input, output |-> tc.output,
              inputCost  |-> Times(Divide(Rat(tc.input, 1), Rat(1000000, 1)),
                                   Dollars(costs.input)),
              outputCost |-> Times(Divide(Rat(tc.output, 1), Rat(1000000, 1)),
                                   Dollars(costs.output)),
              total |-> StarterCalculateCost(model, tc)]

\* main's catch block (lines 1339-1349)
StarterCatch(error) ==
    /\ caught' = error
    /\ logsTab' = IF sheet.ok THEN logErrorToSheet(logsTab, error, now) ELSE logsTab
    /\ pc' = "done"

\* main (lines 1309-1330) up to the first term of classifySearchTerms
StarterMainStart ==
    /\ pc = "loaded"
    /\ tokenCounts' = [input |-> 0, output |-> 0]
    /\ LET st         == StarterReadSettings(sheet)
           valid      == StarterValidateSettings(st)
           key        == getAPIKeys(sheet, st.model)
       IN  IF ~sheet.ok
           THEN /\ StarterCatch("Exception: Invalid argument: url")
                /\ UNCHANGED <<settings, apiKey, idx>>
           ELSE IF valid.threw
           THEN /\ StarterCatch(valid.error)
                /\ settings' = st
                /\ UNCHANGED <<apiKey, idx>>
           ELSE IF key.threw
           THEN /\ StarterCatch(key.error)
                /\ settings' = st
                /\ UNCHANGED <<apiKey, idx>>
           ELSE /\ settings' = st
                /\ apiKey' = key.value
                /\ idx' = 1
                /\ pc' = "classifying"
                /\ UNCHANGED <<caught, logsTab>>
    /\ UNCHANGED <<sheet, resultsTab, attempt, results, now, logger,
                   httpCalls, usageSum, cur, last, tabs0, run, validateVars, metricVars, reportVars, callVars>>

\* classifySearchTerms lines 1473-1500 for a call of an adapter that ended
\* at endTime with this outcome; the variable attempt is retryCount
StarterEndOfCall(call, history, endTime) ==
    LET term       == settings.topTerms[idx]
        retryCount == attempt + 1
        failed     == [history EXCEPT !.failures = @ + 1, !.lastError = call.out.error]
    IN  IF ~call.out.threw
        THEN TermDone(successResult(term, call.out.value, history.startTime, endTime),
                      history)
        ELSE IF retryCount < 3
        THEN /\ attempt' = retryCount
             /\ now' = endTime + waitTime(retryCount)
             /\ cur' = [failed EXCEPT !.sleeps = Append(@, waitTime(retryCount)),
                                      !.elapsed = endTime + waitTime(retryCount)]
             /\ last' = NoHistory
             /\ pc' = "classifying"
             /\ UNCHANGED <<results, idx>>
        ELSE TermDone(terminalResult(term, call.out.error), failed)

\* one iteration of the while loop of classifySearchTerms for the term at
\* idx, up to the first response of the adapter; classifyWithAnthropic goes
\* on polling after a response that is not a 200
StarterAttempt ==
    /\ pc = "classifying"
    /\ \E resp \in Responses :
         LET endTime == now + resp.latency
             call    == StarterClassify(settings.model, resp, tokenCounts)
             called  == [cur EXCEPT !.term = idx, !.calls = @ + 1,
                                    !.lastResponse = resp,
                                    !.elapsed = endTime,
                                    !.model = StarterGetModelVersion(settings.model,
                                                                     settings.cheap).value,
                                    !.fetches = @ + 1,
                                    !.startTime = now,
                                    !.pollStart = endTime]
         IN  /\ httpCalls' = httpCalls + 1
             /\ IF settings.model = "anthropic" /\ keepPolling(resp.status, endTime, endTime)
                THEN /\ pc' = "polling"
                     /\ cur' = called
                     /\ now' = endTime
                     /\ last' = NoHistory
                     /\ UNCHANGED <<tokenCounts, usageSum, results, idx, attempt>>
                ELSE /\ tokenCounts' = call.tokenCounts
                     /\ usageSum' = StarterTrack(usageSum, IF resp.status = 200 THEN resp.usage
                                                           ELSE NoUsage)
                     /\ StarterEndOfCall(call, called, endTime)
    /\ UNCHANGED <<sheet, resultsTab, logsTab, settings, apiKey, logger, caught,
                   tabs0, run, validateVars, metricVars, reportVars, callVars>>

\* one iteration of the polling loop of classifyWithAnthropic (lines
\* 1637-1643): sleep 5 s, fetch again; then the rest of the adapter when the
\* loop ends
StarterPoll ==
    /\ pc = "polling"
    /\ \E resp \in Responses :
         LET endTime == now + 5000 + resp.latency
             call    == StarterClassifyWithAnthropic(resp, tokenCounts)
             polled  == [cur EXCEPT !.lastResponse = resp,
                                    !.elapsed = endTime,
                                    !.fetches = @ + 1]
         IN  /\ httpCalls' = httpCalls + 1
             /\ IF keepPolling(resp.status, endTime, cur.pollStart)
                THEN /\ cur' = polled
                     /\ now' = endTime
                     /\ UNCHANGED <<tokenCounts, usageSum, results, idx, attempt, last, pc>>
                ELSE /\ tokenCounts' = call.tokenCounts
                     /\ usageSum' = StarterTrack(usageSum, IF resp.status = 200 THEN resp.usage
                                                           ELSE NoUsage)
                     /\ StarterEndOfCall(call, polled, endTime)
    /\ UNCHANGED <<sheet, resultsTab, logsTab, settings, apiKey, logger, caught,
                   tabs0, run, validateVars, metricVars, reportVars, callVars>>

\* main lines 1333-1336: outputResults, calculateCost
StarterFinish ==
    /\ pc = "output"
    /\ resultsTab' = outputResults(resultsTab, results)
    /\ logger' = StarterCostLog(StarterGetModelVersion(settings.model, settings.cheap).value,
                                tokenCounts)
    /\ pc' = "done"
    /\ UNCHANGED <<sheet, logsTab, settings, apiKey, idx, attempt, results, tokenCounts,
                   now, caught, httpCalls, usageSum, cur, last, tabs0, run,
                   validateVars, metricVars, reportVars, callVars>>

\* sheets of the runs of this script
StarterSheets ==
    [ok : BOOLEAN, model : {"OpenAI", "anthropic", "google", "gemini"}, cheap : {"yes"},
     topTerms : {<<>>, <<" ", "term2">>},
     mikeKey : {NoRange, Str("MK")}, regularKey : {Str(""), Str("RK")}]

InitStarter ==
    /\ InitRun(StarterSheets, {OldResults}, {NoTab})
    /\ HarnessIdle

NextStarter == StarterMainStart \/ StarterAttempt \/ StarterPoll \/ StarterFinish

SpecStarter == InitStarter /\ [][NextStarter]_vars

\* C21: an adapter sends one HTTP request per invocation, so a term causes
\* at most MAX_RETRIES requests whatever the endpoint answers
C21_OneRequestPerInvocation ==
    \A h \in {cur, last} :
        /\ h.fetches <= h.calls
        /\ h.fetches <= MAX_RETRIES

(***************************************************************************)
(* The report scripts: main of src/scripts/search-term.js and the first    *)
(* script of src/scripts/starter-app-script.js (lines 1-226).              *)
(* ss.tabs holds the tabs by name; ss.throws names the one operation of    *)
(* the spreadsheet service that throws, and the tab it throws for.         *)
(***************************************************************************)
TAB == "Search_Terms"

SEARCH_TERMS_TAB == "SearchTerms"

DAILY_TAB == "Daily"

TabNames == {"Search_Terms", "SearchTerms", "Daily"}

SheetOps == {"getSheetByName", "insertSheet", "setName", "clear"}

NoThrow == [op |-> "none", name |-> ""]

SearchTermHeaders ==
    <<Str("Search Term"), Str("Campaign"), Str("Ad Group"), Str("Impressions"),
      Str("Clicks"), Str("Cost"), Str("Conversions"), Str("Conversion Value"),
      Str("CPC"), Str("CTR"), Str("Conv. Rate"), Str("CPA"), Str("ROAS"), Str("AOV")>>

StarterSearchTermHeaders ==
    <<Str("search_term"), Str("campaign"), Str("ad_group"), Str("impressions"),
      Str("clicks"), Str("cost"), Str("conversions"), Str("conversion_value"),
      Str("cpc"), Str("ctr"), Str("conv_rate"), Str("cpa"), Str("roas"), Str("aov")>>

DailyHeaders ==
    <<Str("campaign"), Str("campaignId"), Str("clicks"), Str("lostBudget"),
      Str("imprShare"), Str("lostRank"), Str("value"), Str("conv"), Str("cost"),
      Str("impr"), Str("date")>>

\* the row of the search term report for a term
QueryRow(term) ==
    [searchTerm |-> term, campaign |-> "Brand", adGroup |-> "Exact",
     impressions |-> Rat(40, 1), clicks |-> Rat(8, 1), costMicros |-> Rat(2500000, 1),
     conversions |-> Rat(1, 2), conversionValue |-> Rat(199, 2)]

\* the row of the daily report for a date
DailyRow(date) ==
    [campaign |-> "Brand", campaignId |-> "17", date |-> date,
     impressions |-> Rat(40, 1), clicks |-> Rat(8, 1), costMicros |-> Rat(2500000, 1),
     conversions |-> Rat(1, 2), conversionValue |-> Rat(199, 2)]

\* newRow of calculateMetrics and of calculateSearchTermsMetrics
newRow(row, m) ==
    <<Str(row.searchTerm), Str(row.campaign), Str(row.adGroup), m.impressions, m.clicks,
      m.cost, m.conversions, m.conversionValue, m.cpc, m.ctr, m.convRate, m.cpa,
      m.roas, m.aov>>

\* newRow of processDailyData (lines 193-218); the impression shares of the
\* report are absent
dailyRow(row) ==
    <<Str(row.campaign), Str(row.campaignId), numberOr0(row.clicks), Zero, Zero, Zero,
      numberOr0(row.conversionValue), numberOr0(row.conversions),
      Divide(numberOr0(row.costMicros), Rat(1000000, 1)), numberOr0(row.impressions),
      Str(row.date)>>

\* a tab left by an earlier run, with three data rows
OldTab(headers) ==
    Tab(<<headers, <<Str("old1")>>, <<Str("old2")>>, <<Str("old3")>>>>)

\* does this operation on this tab throw
Throws(s, op, name) ==
    \/ s.throws = [op |-> op, name |-> name]
    \/ op = "setName" /\ s.tabs[SEARCH_TERMS_TAB].exists

SinkError(op) == "Exception: " \o op \o " failed"

\* the inner try of main of search-term.js (lines 36-43) that throws after
\* the tab was cleared
getOrCreateTab_clearedOnThrow(s, name) ==
    IF Throws(s, "getSheetByName", name)
    THEN [threw |-> TRUE, error |-> SinkError("getSheetByName"), tabs |-> s.tabs]
    ELSE IF ~s.tabs[name].exists
    THEN IF Throws(s, "insertSheet", name)
         THEN [threw |-> TRUE, error |-> SinkError("insertSheet"), tabs |-> s.tabs]
         ELSE [threw |-> FALSE, error |-> "", tabs |-> [s.tabs EXCEPT ![name] = Tab(<<>>)]]
    ELSE IF Throws(s, "clear", name)
         THEN [threw |-> TRUE, error |-> SinkError("clear"),
               tabs |-> [s.tabs EXCEPT ![name] = clear(@)]]
         ELSE [threw |-> FALSE, error |-> "", tabs |-> [s.tabs EXCEPT ![name] = clear(@)]]

\* the inner try of main of search-term.js (lines 36-43) and of
\* processDailyTab (lines 126-133): get the tab and clear it, or insert it
getOrCreateTab(s, name) ==
    IF Throws(s, "getSheetByName", name)
    THEN [threw |-> TRUE, error |-> SinkError("getSheetByName"), tabs |-> s.tabs]
    ELSE IF ~s.tabs[name].exists
    THEN IF Throws(s, "insertSheet", name)
         THEN [threw |-> TRUE, error |-> SinkError("insertSheet"), tabs |-> s.tabs]
         ELSE [threw |-> FALSE, error |-> "", tabs |-> [s.tabs EXCEPT ![name] = Tab(<<>>)]]
    ELSE IF Throws(s, "clear", name)
         THEN [threw |-> TRUE, error |-> SinkError("clear"), tabs |-> s.tabs]
         ELSE [threw |-> FALSE, error |-> "", tabs |-> [s.tabs EXCEPT ![name] = clear(@)]]

\* the inner try of processSearchTermsTab (lines 79-93): a tab under the old
\* name is renamed; otherwise the tab is got and cleared, or inserted
renameOrCreateTab(s) ==
    IF Throws(s, "getSheetByName", TAB)
    THEN [threw |-> TRUE, error |-> SinkError("getSheetByName"), tabs |-> s.tabs]
    ELSE IF s.tabs[TAB].exists
    THEN IF Throws(s, "setName", TAB)
         THEN [threw |-> TRUE, error |-> SinkError("setName"), tabs |-> s.tabs]
         ELSE [threw |-> FALSE, error |-> "",
               tabs |-> [s.tabs EXCEPT ![SEARCH_TERMS_TAB] = s.tabs[TAB], ![TAB] = NoTab]]
    ELSE getOrCreateTab(s, SEARCH_TERMS_TAB)

\* the rest of a report operation: headers, query, rows
writeReport(tabs, name, headers, data) ==
    LET headed == setValues(tabs[name], 1, <<headers>>)
    IN  [tabs EXCEPT ![name] = IF Len(data) > 0 THEN setValues(headed, 2, data)
                               ELSE headed]

\* main of search-term.js (lines 22-72)
SearchTermMain ==
    /\ rp.script = "search-term"
    /\ rp.pc = "main"
    /\ LET sink == getOrCreateTab(ss, TAB)
           data == [i \in 1..Len(rp.searchTerms) |->
                       newRow(rp.searchTerms[i], calculateMetrics(rp.searchTerms[i]))]
       IN  IF sink.threw
           THEN /\ ss' = [ss EXCEPT !.tabs = sink.tabs]
                /\ rp' = [rp EXCEPT !.pc = "done",
                                    !.log = Append(@, "Error with sheet: " \o sink.error)]
           ELSE /\ ss' = [ss EXCEPT !.tabs = writeReport(sink.tabs, TAB,
                                                         SearchTermHeaders, data)]
                /\ rp' = [rp EXCEPT !.pc = "done",
                                    !.queries = Append(@, "QUERY")]
    /\ UNCHANGED <<runVars, validateVars, metricVars, callVars>>

\* processSearchTermsTab (lines 75-120), called by main of starter-app-script.js
ProcessSearchTermsTab ==
    /\ rp.script = "starter"
    /\ rp.pc = "main"
    /\ LET sink == renameOrCreateTab(ss)
           data == [i \in 1..Len(rp.searchTerms) |->
                       newRow(rp.searchTerms[i],
                              calculateSearchTermsMetrics(rp.searchTerms[i]))]
       IN  IF sink.threw
           THEN /\ ss' = [ss EXCEPT !.tabs = sink.tabs]
                /\ rp' = [rp EXCEPT !.pc = "daily",
                                    !.log = Append(@, "Error with search terms sheet: "
                                                      \o sink.error)]
           ELSE /\ ss' = [ss EXCEPT !.tabs = writeReport(sink.tabs, SEARCH_TERMS_TAB,
                                                         StarterSearchTermHeaders, data)]
                /\ rp' = [rp EXCEPT !.pc = "daily",
                                    !.queries = Append(@, "SEARCH_TERMS_QUERY")]
    /\ UNCHANGED <<runVars, validateVars, metricVars, callVars>>

\* processDailyTab (lines 122-159), called next by main
ProcessDailyTab ==
    /\ rp.script = "starter"
    /\ rp.pc = "daily"
    /\ LET sink == getOrCreateTab(ss, DAILY_TAB)
           data == [i \in 1..Len(rp.daily) |-> dailyRow(rp.daily[i])]
       IN  IF sink.threw
           THEN /\ ss' = [ss EXCEPT !.tabs = sink.tabs]
                /\ rp' = [rp EXCEPT !.pc = "done",
                                    !.log = Append(@, "Error with daily sheet: "
                                                      \o sink.error)]
           ELSE /\ ss' = [ss EXCEPT !.tabs = writeReport(sink.tabs, DAILY_TAB,
                                                         DailyHeaders, data)]
                /\ rp' = [rp EXCEPT !.pc = "done",
                                    !.queries = Append(@, "DAILY_QUERY")]
    /\ UNCHANGED <<runVars, validateVars, metricVars, callVars>>

\* the spreadsheets the report scripts may find
Spreadsheets ==
    [tabs : [TabNames -> {NoTab, OldTab(StarterSearchTermHeaders)}],
     throws : {NoThrow} \cup [op : SheetOps, name : TabNames]]

InitReport ==
    /\ InitRun({IdleSheet}, {NoTab}, {NoTab})
    /\ vIn = Idle(Undefined)
    /\ vOut = Idle(Undefined)
    /\ mRow = Idle(Undefined)
    /\ mOut = Idle(Undefined)
    /\ args = Idle(Undefined)
    /\ ret = Idle(Undefined)
    /\ ss \in Spreadsheets
    /\ \E script \in {"search-term", "starter"}, n \in 0..MaxRows, m \in 0..1 :
          rp = [script |-> script, pc |-> "main", log |-> <<>>, queries |-> <<>>,
                searchTerms |-> [i \in 1..n |-> QueryRow("new" \o ToString(i))],
                daily |-> [i \in 1..m |-> DailyRow("2025-05-0" \o ToString(i))],
                tabs0 |-> ss.tabs]

NextReport == SearchTermMain \/ ProcessSearchTermsTab \/ ProcessDailyTab

SpecReport == InitReport /\ [][NextReport]_vars

\* the tab operations of main of search-term.js throw for this spreadsheet
SearchTermSinkThrows(s, tabs) ==
    /\ s.throws.name = TAB
    /\ \/ s.throws.op = "getSheetByName"
       \/ s.throws.op = "insertSheet" /\ ~tabs[TAB].exists
       \/ s.throws.op = "clear" /\ tabs[TAB].exists

\* the tab operations of processSearchTermsTab throw for this spreadsheet
StarterSinkThrows(s, tabs) ==
    \/ s.throws = [op |-> "getSheetByName", name |-> TAB]
    \/ /\ tabs[TAB].exists
       /\ s.throws = [op |-> "setName", name |-> TAB] \/ tabs[SEARCH_TERMS_TAB].exists
    \/ /\ ~tabs[TAB].exists
       /\ s.throws.name = SEARCH_TERMS_TAB
       /\ \/ s.throws.op = "getSheetByName"
          \/ s.throws.op = "insertSheet" /\ ~tabs[SEARCH_TERMS_TAB].exists
          \/ s.throws.op = "clear" /\ tabs[SEARCH_TERMS_TAB].exists

C23_SearchTermsTabOverwritten ==
    (/\ rp.script = "starter"
     /\ rp.pc \in {"daily", "done"}
     /\ ~StarterSinkThrows(ss, rp.tabs0)
     /\ rp.tabs0[TAB].exists \/ rp.tabs0[SEARCH_TERMS_TAB].exists) =>
        /\ ss.tabs[SEARCH_TERMS_TAB].exists
        /\ ss.tabs[SEARCH_TERMS_TAB].rows =
              <<StarterSearchTermHeaders>> \o
              [i \in 1..Len(rp.searchTerms) |->
                  newRow(rp.searchTerms[i], calculateSearchTermsMetrics(rp.searchTerms[i]))]

\* C24: the row outputResults writes for a result is term, category,
\* confidence, duration, error or empty; the Confidence cell is the
\* confidence of the result, which is 0 for a term that used up its attempts
C24_ConfidenceCellIsConfidence ==
    (pc = "done" /\ caught = "") =>
        \A i \in 1..Len(results) :
            /\ resultsTab.rows[i + 1][1] = results[i].term
            /\ resultsTab.rows[i + 1][2] = results[i].category
            /\ resultsTab.rows[i + 1][3] = results[i].confidence
            /\ resultsTab.rows[i + 1][5] = OrElse(results[i].error, Str(""))

(***************************************************************************)
(* src/scripts/v1-step3/classify-terms.js: main classifies the rows of the *)
(* topTerms range with OpenAI and writes the results in batches of 10.     *)
(* It runs on the variables of the other classifiers: results is the batch *)
(* not yet written, idx the row forEach is at, tokenCounts the two global  *)
(* counters.                                                               *)
(***************************************************************************)
V1Headers ==
    <<Str("Search Term"), Str("Primary Category"), Str("Search Intent"),
      Str("Tokens Used"), Str("Cost (USD)")>>

\* cost of a request and totalCost (lines 163 and 89), in dollars
V1Cost(inputTokens, outputTokens) ==
    Divide(Plus(Times(Rat(inputTokens, 1), Rat(15, 100)),
                Times(Rat(outputTokens, 1), Rat(60, 100))),
           Rat(1000000, 1))

\* what the endpoint may answer: a classification, a text without the
\* pipe character, an error status
V1Responses ==
    { [status |-> 200, category |-> "Swimwear", intent |-> Str("COMMERCIAL"),
       inputTokens |-> 120, outputTokens |-> 4],
      [status |-> 200, category |-> "Other", intent |-> Undefined,
       inputTokens |-> 120, outputTokens |-> 2],
      [status |-> 500, category |-> "", intent |-> Undefined,
       inputTokens |-> 0, outputTokens |-> 0] }

\* getApiKey (lines 114-125)
getApiKey(sh) ==
    IF sh.regularKey = NoRange
    THEN Throw("Error: Named range \"key_openai\" not found in spreadsheet")
    ELSE IF ~Truthy(getValue(sh.regularKey))
    THEN Throw("Error: OpenAI API key not found in named range \"key_openai\"")
    ELSE Return(getValue(sh.regularKey))

\* Sheet.getLastRow()
getLastRow(tab) == Len(tab.rows)

\* the catch block of main (lines 108-110)
V1Catch(error) ==
    /\ caught' = error
    /\ pc' = "done"

\* main (lines 24-45) up to the forEach over the rows of the range
V1Start ==
    /\ pc = "loaded"
    /\ LET key == getApiKey(sheet)
       IN  IF ~sheet.ok
           THEN /\ V1Catch("Exception: Invalid argument: url")
                /\ UNCHANGED <<apiKey, resultsTab, idx>>
           ELSE IF key.threw
           THEN /\ V1Catch(key.error)
                /\ UNCHANGED <<apiKey, resultsTab, idx>>
           ELSE /\ apiKey' = key.value
                /\ resultsTab' = setValues(IF resultsTab.exists THEN clear(resultsTab)
                                           ELSE Tab(<<>>), 1, <<V1Headers>>)
                /\ idx' = 1
                /\ pc' = IF Len(sheet.topTerms) > 0 THEN "classifying" ELSE "output"
                /\ UNCHANGED caught
    /\ UNCHANGED <<sheet, logsTab, settings, attempt, results, tokenCounts, now, logger,
                   httpCalls, usageSum, cur, last, tabs0, run,
                   validateVars, metricVars, reportVars, callVars>>

\* one callback of terms.forEach (lines 49-86), for the row at idx
V1Callback ==
    /\ pc = "classifying"
    /\ LET term  == sheet.topTerms[idx]
           index == idx - 1
           next  == IF idx < Len(sheet.topTerms) THEN "classifying" ELSE "output"
       IN  IF term = ""
           THEN /\ idx' = idx + 1
                /\ pc' = next
                /\ UNCHANGED <<results, resultsTab, tokenCounts, httpCalls, caught, now>>
           ELSE \E resp \in V1Responses :
                  LET row    == <<Str(term), Str(trim(resp.category)), resp.intent,
                                  Str(ToString(resp.inputTokens) \o "/"
                                      \o ToString(resp.outputTokens)),
                                  Num(toFixed4(V1Cost(resp.inputTokens, resp.outputTokens)))>>
                      pushed == Append(results, row)
                      flush  == Len(pushed) = 10 \/ index = Len(sheet.topTerms) - 1
                  IN  /\ httpCalls' = httpCalls + 1
                      /\ IF resp.status # 200
                         THEN /\ V1Catch("Error: OpenAI API request failed")
                              /\ UNCHANGED <<results, resultsTab, tokenCounts, idx, now>>
                         ELSE IF resp.intent = Undefined
                         THEN /\ V1Catch("TypeError: Cannot read properties of undefined (reading 'trim')")
                              /\ tokenCounts' = [input  |-> tokenCounts.input + resp.inputTokens,
                                                 output |-> tokenCounts.output + resp.outputTokens]
                              /\ UNCHANGED <<results, resultsTab, idx, now>>
                         ELSE /\ tokenCounts' = [input  |-> tokenCounts.input + resp.inputTokens,
                                                 output |-> tokenCounts.output + resp.outputTokens]
                              /\ resultsTab' = IF flush
                                               THEN setValues(resultsTab,
                                                              getLastRow(resultsTab) + 1, pushed)
                                               ELSE resultsTab
                              /\ results' = IF flush THEN <<>> ELSE pushed
                              /\ now' = now + 1000
                              /\ idx' = idx + 1
                              /\ pc' = next
                              /\ UNCHANGED caught
    /\ UNCHANGED <<sheet, logsTab, settings, apiKey, attempt, logger, usageSum, cur, last,
                   tabs0, run, validateVars, metricVars, reportVars, callVars>>

\* main after the forEach (lines 88-106): the summary row
V1Summary ==
    /\ pc = "output"
    /\ LET totalCost  == V1Cost(tokenCounts.input, tokenCounts.output)
           summaryRow == <<Str("TOTAL"), Str(""), Str(""),
                           Str(ToString(tokenCounts.input) \o "/"
                               \o ToString(tokenCounts.output)),
                           Num(toFixed4(totalCost))>>
       IN  /\ resultsTab' = setValues(resultsTab, getLastRow(resultsTab) + 1, <<summaryRow>>)
           /\ logger' = [NoLog EXCEPT !.input = tokenCounts.input,
                                      !.output = tokenCounts.output,
                                      !.total = totalCost]
    /\ pc' = "done"
    /\ UNCHANGED <<sheet, logsTab, settings, apiKey, idx, attempt, results, tokenCounts,
                   now, caught, httpCalls, usageSum, cur, last, tabs0, run,
                   validateVars, metricVars, reportVars, callVars>>

\* the rows of a range: each one a term or empty
RangeRows(n) == [1..n -> {"", "t"}]

\* the sheets classify-terms.js may find; the term of row i is named after i
V1Sheets ==
    {[ok |-> ok, model |-> "openai", cheap |-> "no",
      topTerms |-> [i \in DOMAIN cells |->
                       IF cells[i] = "" THEN "" ELSE "t" \o ToString(i)],
      mikeKey |-> NoRange, regularKey |-> key] :
        ok \in BOOLEAN, key \in {NoRange, Str("RK")},
        cells \in UNION {RangeRows(n) : n \in 0..MaxRange}}

InitV1 ==
    /\ sheet \in {sh \in V1Sheets : (~sh.ok \/ sh.regularKey = NoRange) => sh.topTerms = <<>>}
    /\ InitRun({sheet}, {NoTab, OldResults}, {NoTab})
    /\ HarnessIdle

NextV1 == V1Start \/ V1Callback \/ V1Summary

SpecV1 == InitV1 /\ [][NextV1]_vars

\* C25: when main completes without an error the Results tab holds the
\* header, one row for every non-empty row of the topTerms range, in range
\* order, and the TOTAL row
C25_OneRowPerTermThenTotal ==
    (pc = "done" /\ caught = "") =>
        LET terms == SelectSeq(sheet.topTerms, LAMBDA t : t # "")
        IN  /\ Len(resultsTab.rows) = Len(terms) + 2
            /\ \A i \in 1..Len(terms) : resultsTab.rows[i + 1][1] = Str(terms[i])
            /\ resultsTab.rows[Len(resultsTab.rows)][1] = Str("TOTAL")

(***************************************************************************)
(* The API-key test scripts src/unnamed/part_003 and part_004:             *)
(* generateTextOpenAI fetches, polls while the response is not a 200 and   *)
(* the retry window is open, and returns a text.  args names the script;   *)
(* ret holds the locals of the call in progress, then the value returned.  *)
(***************************************************************************)
\* the limit in the while condition: line 42 of part_003, line 54 of part_004
retryWindow(script) == IF script = "part_003" THEN 15000 ELSE 30000

\* what the endpoint may answer: a completion, an error object, a body that
\* is not JSON
KeyTestResponses ==
    { [status |-> 200, json |-> TRUE, text |-> "The view is vast.", message |-> ""],
      [status |-> 200, json |-> TRUE, text |-> "Snow and sky.", message |-> ""],
      [status |-> 429, json |-> TRUE, text |-> "", message |-> "Rate limit reached"],
      [status |-> 502, json |-> FALSE, text |-> "", message |-> ""] }

\* generateTextOpenAI from the test of responseCode on (part_003 lines
\* 48-64): responseCode and responseContent are those of the first response
textReturned(responseCode, responseContent, response) ==
    IF responseCode # 200
    THEN IF responseContent.json THEN "Error: " \o responseContent.message
         ELSE "Error: Failed to parse the OpenAI API error response."
    ELSE response.text

\* generateTextOpenAI up to the while loop (part_003 lines 37-41)
KeyTestFetch ==
    /\ args.kind \in {"part_003", "part_004"}
    /\ ret.kind = "idle"
    /\ \E resp \in KeyTestResponses :
         ret' = [kind |-> "polling", response |-> resp, responseCode |-> resp.status,
                 responseContent |-> resp, startTime |-> 100, t |-> 100, fetches |-> 1,
                 value |-> ""]
    /\ UNCHANGED <<args, runVars, validateVars, metricVars, reportVars>>

\* one iteration of the while loop (part_003 lines 42-46)
KeyTestPoll ==
    /\ ret.kind = "polling"
    /\ ret.response.status # 200
    /\ ret.t - ret.startTime < retryWindow(args.kind)
    /\ \E resp \in KeyTestResponses :
         ret' = [ret EXCEPT !.response = resp, !.t = @ + 5000 + 100, !.fetches = @ + 1]
    /\ UNCHANGED <<args, runVars, validateVars, metricVars, reportVars>>

\* the loop has ended: the rest of generateTextOpenAI (part_003 lines 48-64)
KeyTestReturn ==
    /\ ret.kind = "polling"
    /\ ~(ret.response.status # 200 /\ ret.t - ret.startTime < retryWindow(args.kind))
    /\ ret' = [ret EXCEPT !.kind = "returned",
                          !.value = textReturned(ret.responseCode, ret.responseContent,
                                                 ret.response)]
    /\ UNCHANGED <<args, runVars, validateVars, metricVars, reportVars>>

InitKeyTest ==
    /\ InitRun({IdleSheet}, {NoTab}, {NoTab})
    /\ vIn = Idle(Undefined)
    /\ vOut = Idle(Undefined)
    /\ mRow = Idle(Undefined)
    /\ mOut = Idle(Undefined)
    /\ ss = Idle(Undefined)
    /\ rp = Idle(Undefined)
    /\ args \in {[kind |-> "part_003", value |-> Undefined],
                 [kind |-> "part_004", value |-> Undefined]}
    /\ ret = Idle(Undefined)

NextKeyTest == KeyTestFetch \/ KeyTestPoll \/ KeyTestReturn

SpecKeyTest == InitKeyTest /\ [][NextKeyTest]_vars

\* C26: when the first response is not a 200 and a retry inside the window
\* is answered with a 200, generateTextOpenAI returns the generated text of
\* that response and not a text starting with "Error: "
C26_ReturnsLatestResponse ==
    (/\ ret.kind = "returned"
     /\ ret.fetches > 1
     /\ ret.responseCode # 200
     /\ ret.response.status = 200) =>
        /\ ret.value = ret.response.text
        /\ ~stringIncludes(ret.value, "Error: ")

(***************************************************************************)
(* src/scripts/google-ads-search-term-classifier.js: classifySearchTerms   *)
(* parses one generated text per search term, createSummaryReport counts   *)
(* the categories.  args holds the generated texts, ret the classified     *)
(* terms and then the summary written.                                     *)
(***************************************************************************)
INTENT_CATEGORIES == <<"Informational", "Navigational", "Transactional", "Commercial">>

\* parseOpenAIResponse (lines 197-233)
parseOpenAIResponse(text) ==
    IF text.kind # "json" THEN [category |-> Str("Error"), confidence |-> Num(0)]
    ELSE IF ~Truthy(text.category) \/ text.confidence.type # "number"
    THEN [category |-> Str("Error"), confidence |-> Num(0)]
    ELSE [category |-> text.category, confidence |-> text.confidence]

\* the generated texts the intent classifier may receive
IntentTexts ==
    { Json(Str("Informational"), Num(90)),
      Json(Str("Transactional"), Num(75)),
      Json(Str("Local"), Num(80)),
      Json(Str("Commercial"), Undefined),
      NoJson }

\* how many terms of the list have this category
RECURSIVE countOf(_, _)
countOf(terms, category) ==
    IF terms = <<>> THEN 0
    ELSE (IF terms[1].category = Str(category) THEN 1 ELSE 0) + countOf(Tail(terms), category)

\* createSummaryReport (lines 309-349): the rows it writes from row 5 on
summaryOf(classifiedTerms) ==
    LET errorsCount     == countOf(classifiedTerms, "Error")
        totalClassified == Cardinality({i \in 1..Len(classifiedTerms) :
                                           classifiedTerms[i].category # Str("Error")})
    IN  [rows |-> [i \in 1..Len(INTENT_CATEGORIES) |->
                      LET count == countOf(classifiedTerms, INTENT_CATEGORIES[i])
                      IN  [category |-> INTENT_CATEGORIES[i], count |-> count,
                           percentage |-> IF totalClassified > 0
                                          THEN Rat(count, totalClassified) ELSE Zero]],
         totalClassified |-> totalClassified,
         errors |-> IF errorsCount > 0 THEN Num(errorsCount) ELSE Undefined]

\* classifySearchTerms (lines 125-171), every request answered
ClassifyIntents ==
    /\ args.kind = "texts"
    /\ ret.kind = "idle"
    /\ ret' = [kind |-> "classified",
               value |-> [i \in 1..Len(args.value) |-> parseOpenAIResponse(args.value[i])]]
    /\ UNCHANGED <<args, runVars, validateVars, metricVars, reportVars>>

\* createSummaryReport (lines 294-367)
CreateSummaryReport ==
    /\ ret.kind = "classified"
    /\ ret' = [kind |-> "summary", value |-> summaryOf(ret.value), terms |-> ret.value]
    /\ UNCHANGED <<args, runVars, validateVars, metricVars, reportVars>>

InitIntent ==
    /\ InitRun({IdleSheet}, {NoTab}, {NoTab})
    /\ vIn = Idle(Undefined)
    /\ vOut = Idle(Undefined)
    /\ mRow = Idle(Undefined)
    /\ mOut = Idle(Undefined)
    /\ ss = Idle(Undefined)
    /\ rp = Idle(Undefined)
    /\ \E texts \in UNION {[1..n -> IntentTexts] : n \in 0..MaxTerms} :
          args = [kind |-> "texts", value |-> texts]
    /\ ret = Idle(Undefined)

NextIntent == ClassifyIntents \/ CreateSummaryReport

SpecIntent == InitIntent /\ [][NextIntent]_vars

RECURSIVE SumOfCounts(_)
SumOfCounts(rows) ==
    IF rows = <<>> THEN 0 ELSE rows[1].count + SumOfCounts(Tail(rows))

RECURSIVE SumOfPercentages(_)
SumOfPercentages(rows) ==
    IF rows = <<>> THEN Zero ELSE Plus(rows[1].percentage, SumOfPercentages(Tail(rows)))

\* C27: the counts written for INTENT_CATEGORIES sum to Total Classified, the
\* percentages sum to 1 when Total Classified is positive, and Total
\* Classified plus the errors count is the number of classified terms
C27_SummaryConsistent ==
    ret.kind = "summary" =>
        /\ SumOfCounts(ret.value.rows) = ret.value.totalClassified
        /\ ret.value.totalClassified > 0 =>
              SumOfPercentages(ret.value.rows) = Rat(1, 1)
        /\ ret.value.totalClassified + OrElse(ret.value.errors, Num(0)).num
              = Len(ret.terms)

\* the history of the call of classifyTerm a step has just made
JustCalled == IF cur'.calls > 0 THEN cur' ELSE last'

\* the 200 response was rejected after its text was extracted
Rejected(h) ==
    \/ stringIncludes(h.lastError, "No JSON found")
    \/ stringIncludes(h.lastError, "SyntaxError")
    \/ stringIncludes(h.lastError, "Invalid category")

\* C28: a call of classifyTerm adds the usage of its response to the totals
\* when the response is a 200 whose text and usage were extracted, also when
\* the text is then rejected and the attempt retried; a response that is not
\* a 200 adds nothing
C28_TokensCountedBeforeValidation ==
    [][pc = "classifying" =>
          LET resp == JustCalled.lastResponse
          IN  /\ resp.status # 200 => tokenCounts' = tokenCounts
              /\ (resp.status = 200 /\ resp.usage.present) =>
                    tokenCounts' = [input  |-> tokenCounts.input + resp.usage.input.num,
                                    output |-> tokenCounts.output + resp.usage.output.num]
              /\ (resp.status = 200 /\ Rejected(JustCalled)) =>
                    tokenCounts' = [input  |-> tokenCounts.input + resp.usage.input.num,
                                    output |-> tokenCounts.output + resp.usage.output.num]]_vars

\* the first term ended as ERROR after three 200 responses that were rejected
C28_Witness ==
    /\ Len(results) = 1
    /\ results[1].category = Str("ERROR")
    /\ last.failures = 3
    /\ Rejected(last)
    /\ httpCalls = 3
    /\ tokenCounts = [input |-> 60, output |-> 45]

\* every HTTP call and every sleep returns, so main keeps taking steps until
\* it returns. This is WF_vars(Next) with ENABLED <<Next>>_vars written as
\* the state predicate it equals: a step of main is possible exactly while
\* main has not returned.
SpecLive == Spec /\ ([]<><<Next>>_vars \/ []<>(pc = "done"))

\* C29: classifyTerms terminates: the attempt counter stays below
\* MAX_RETRIES, a term causes at most 3 calls of the classifier and at most
\* 2 sleeps, every term ends with a defined result, and main returns
C29_ClassifyTermsTerminates ==
    /\ [](/\ attempt < MAX_RETRIES
          /\ \A h \in {cur, last} : h.calls <= MAX_RETRIES /\ Len(h.sleeps) <= 2
          /\ \A i \in 1..Len(results) :
                /\ results[i].term # Undefined
                /\ results[i].category # Undefined
          /\ pc \in {"output", "done"} /\ caught = "" =>
                Len(results) = Len(settings.topTerms))
    /\ <>(pc = "done")

\* the last of three terms used all its attempts and main returned
C29_Witness ==
    /\ pc = "done"
    /\ Len(results) = 2
    /\ last.term = 2
    /\ last.calls = MAX_RETRIES
    /\ last.sleeps = <<1000, 2000>>

(***************************************************************************)
(* The two retry implementations of starter-app-script.js, as functions   *)
(* of the term list and of the outcomes of the classifier's invocations   *)
(***************************************************************************)

\* what one invocation of a classifyWith... function can end with: an
\* exception, or the object parsed from the generated text after its
\* validation (lines 891-910, 1566-1588), which has a category of CATEGORIES,
\* a confidence and whatever other properties the text had
RetryOutcomes ==
    {Throw("Error: OpenAI error (500)"), Throw("Error: No JSON found in response")}
    \cup {Return([category |-> Str(c), confidence |-> Num(1), error |-> e]) :
            c \in {"COMMERCIAL"}, e \in {Undefined, Str("none")}}

\* the term lists of the harness
RetryTerms == {<<"term1">>, <<"term1", "term2">>}

\* retryApiCall (lines 758-781) from the test of its while loop, apiCallFn
\* taking its outcomes from stream[pos] onwards
RECURSIVE retryApiCall(_, _, _, _, _)
retryApiCall(stream, pos, retryCount, lastError, sleeps) ==
    IF ~(retryCount < 3)
    THEN [out |-> Throw(lastError), pos |-> pos, sleeps |-> sleeps]
    ELSE IF ~stream[pos].threw
    THEN [out |-> stream[pos], pos |-> pos + 1, sleeps |-> sleeps]
    ELSE retryApiCall(stream, pos + 1, retryCount + 1, stream[pos].error,
                      IF retryCount + 1 < 3
                      THEN Append(sleeps, waitTime(retryCount + 1))
                      ELSE sleeps)

\* the body of the loop over the terms of the batch classifySearchTerms
\* (lines 814-855), from term i on; durations are left out
RECURSIVE BatchClassifySearchTerms(_, _, _, _)
BatchClassifySearchTerms(terms, stream, i, acc) ==
    IF i > Len(terms) THEN acc
    ELSE LET call   == retryApiCall(stream, acc.calls + 1, 0, "", acc.sleeps)
             result == IF call.out.threw
                       THEN [term |-> Str(terms[i]), category |-> Str("ERROR"),
                             confidence |-> Num(0), error |-> Str(call.out.error)]
                       ELSE [term |-> Str(terms[i]),
                             category |-> call.out.value.category,
                             confidence |-> call.out.value.confidence,
                             error |-> Undefined]
         IN  BatchClassifySearchTerms(terms, stream, i + 1,
                 [results |-> Append(acc.results, result),
                  calls |-> call.pos - 1, sleeps |-> call.sleeps])

\* the while loop of the inline classifySearchTerms (lines 1457-1498) for
\* one term, from its test
RECURSIVE InlineRetry(_, _, _, _, _)
InlineRetry(term, stream, pos, retryCount, sleeps) ==
    IF ~stream[pos].threw
    THEN [result |-> [term |-> Str(term),
                      category |-> stream[pos].value.category,
                      confidence |-> stream[pos].value.confidence,
                      error |-> stream[pos].value.error],
          pos |-> pos + 1, sleeps |-> sleeps]
    ELSE IF retryCount + 1 < 3
    THEN InlineRetry(term, stream, pos + 1, retryCount + 1,
                     Append(sleeps, waitTime(retryCount + 1)))
    ELSE [result |-> [term |-> Str(term), category |-> Str("ERROR"),
                      confidence |-> Num(0), error |-> Str(stream[pos].error)],
          pos |-> pos + 1, sleeps |-> sleeps]

\* the loop over the terms of the inline classifySearchTerms (lines
\* 1450-1501), from term i on; the result of a successful attempt is the
\* object the classifier returned, with term (and duration) set on it
RECURSIVE InlineClassifySearchTerms(_, _, _, _)
InlineClassifySearchTerms(terms, stream, i, acc) ==
    IF i > Len(terms) THEN acc
    ELSE LET loop == InlineRetry(terms[i], stream, acc.calls + 1, 0, acc.sleeps)
         IN  InlineClassifySearchTerms(terms, stream, i + 1,
                 [results |-> Append(acc.results, loop.result),
                  calls |-> loop.pos - 1, sleeps |-> loop.sleeps])

NoRun == [results |-> <<>>, calls |-> 0, sleeps |-> <<>>]

\* the batch classifySearchTerms runs on the term list and the outcomes
RunRetryApiCall ==
    /\ args.kind = "call"
    /\ ret.batch = Undefined
    /\ ret' = [ret EXCEPT !.batch = BatchClassifySearchTerms(args.terms, args.outcomes,
                                                             1, NoRun)]
    /\ UNCHANGED <<args, runVars, validateVars, metricVars, reportVars>>

\* the inline classifySearchTerms runs on the same term list and outcomes
RunInlineLoop ==
    /\ args.kind = "call"
    /\ ret.inline = Undefined
    /\ ret' = [ret EXCEPT !.inline = InlineClassifySearchTerms(args.terms, args.outcomes,
                                                               1, NoRun)]
    /\ UNCHANGED <<args, runVars, validateVars, metricVars, reportVars>>

\* a term list, and one outcome for each invocation there can be
InitRetry ==
    /\ InitRun({IdleSheet}, {NoTab}, {NoTab})
    /\ vIn = Idle(Undefined)
    /\ vOut = Idle(Undefined)
    /\ mRow = Idle(Undefined)
    /\ mOut = Idle(Undefined)
    /\ ss = Idle(Undefined)
    /\ rp = Idle(Undefined)
    /\ \E terms \in RetryTerms :
         \E outcomes \in [1..(3 * Len(terms)) -> RetryOutcomes] :
            args = [kind |-> "call", terms |-> terms, outcomes |-> outcomes]
    /\ ret = [kind |-> "idle", batch |-> Undefined, inline |-> Undefined]

NextRetry == RunRetryApiCall \/ RunInlineLoop

SpecRetry == InitRetry /\ [][NextRetry]_vars

\* C30: for the same term list and the same outcomes of the invocations the
\* two retry implementations make the same number of invocations, sleep the
\* same durations in the same order and give every term a result with the
\* same term, category, confidence and error.
C30_RetryImplementationsEquivalent ==
    ret.kind = "idle" /\ ret.batch # Undefined /\ ret.inline # Undefined =>
        /\ ret.batch.calls = ret.inline.calls
        /\ ret.batch.sleeps = ret.inline.sleeps
        /\ ret.batch.results = ret.inline.results

====
